---- MODULE Spec2Model ----
(***************************************************************************)
(* Model of the capture pipeline of the Jetson voice assistant:            *)
(*   PersistentAudioStream (src/src/assistant.py 39-198): the arecord      *)
(*   process, the reader thread, the ring buffer and its lock,             *)
(*   read_seconds / read_bytes and stop();                                 *)
(*   get_audio_amplitude (src/src/audio_devices.py 182-205);               *)
(*   VoiceAssistant.check_and_update_mute_status (assistant.py 440-488).   *)
(*                                                                         *)
(* A byte string is a sequence of runs.  A run [id, len, smp, ph] stands   *)
(* for len consecutive bytes: id is the arrival number of its first byte   *)
(* (0 for bytes that did not come from the device, i.e. b'\x00' padding),  *)
(* smp the 16-bit sample the device was emitting, ph = 0 when the first    *)
(* byte of the run is the low byte of a sample and 1 when it is the high   *)
(* byte.  Slicing, concatenation and decoding are computed on runs as the  *)
(* code computes them on bytes.                                            *)
(***************************************************************************)
EXTENDS Integers, Sequences, FiniteSets, TLC

\* ------------------------------------------------------------------------
\* Bounds of the model
\* ------------------------------------------------------------------------
MaxProduced == 2      \* chunks the reader threads take from the capture pipe
MaxSpawns == 2        \* capture processes (and reader threads) ever created
MaxPolls == 2         \* sleep intervals that fit into a read's timeout
MaxReadErrors == 1    \* exceptions raised by stdout.read
ZeroRunCap == 3       \* saturation of the recorded run of zero readings
MaxClock == 3         \* saturation of the clock read by write_mute_state
MaxTokens == 3        \* fragments a transcript is put together from
MaxSaves == 2         \* settings saves the portal handles
MaxRecords == 2       \* calls of record_stats, and of record_query
MaxClears == 1        \* calls of clear_query_history

\* ------------------------------------------------------------------------
\* Program constants
\* ------------------------------------------------------------------------
bytes_per_sample == 2
max_chunks == 100
oww_frame_size == 1280
MinAmplitudeBytes == 100
MaxAmplitudeSamples == 1000
AmplitudeStride == 10
MuteThreshold == 2

None == 0
Free == -1
MainThread == 0

\* the stream never looks into the bytes it moves: one signal value stands for all
StreamSamples == {300}

Min(a, b) == IF a < b THEN a ELSE b

\* ------------------------------------------------------------------------
\* Byte strings
\* ------------------------------------------------------------------------
Run(id, len, smp, ph) == [id |-> id, len |-> len, smp |-> smp, ph |-> ph]

\* b'\x00' * n
Zeros(n) == IF n > 0 THEN << Run(0, n, 0, 0) >> ELSE << >>

RECURSIVE BLen(_)
BLen(bs) == IF bs = << >> THEN 0 ELSE Head(bs).len + BLen(Tail(bs))

RunTake(r, k) == [r EXCEPT !.len = k]

RunDrop(r, k) ==
    [id |-> IF r.id = 0 THEN 0 ELSE r.id + k,
     len |-> r.len - k,
     smp |-> r.smp,
     ph |-> IF r.id = 0 THEN 0 ELSE (r.ph + k) % 2]

\* bs[:n]  (n >= 0)
RECURSIVE BTake(_, _)
BTake(bs, n) ==
    IF n <= 0 \/ bs = << >> THEN << >>
    ELSE IF Head(bs).len <= n
         THEN << Head(bs) >> \o BTake(Tail(bs), n - Head(bs).len)
         ELSE << RunTake(Head(bs), n) >>

\* bs[n:]  (n >= 0)
RECURSIVE BDrop(_, _)
BDrop(bs, n) ==
    IF bs = << >> THEN << >>
    ELSE IF n <= 0 THEN bs
    ELSE IF Head(bs).len <= n
         THEN BDrop(Tail(bs), n - Head(bs).len)
         ELSE << RunDrop(Head(bs), n) >> \o Tail(bs)

\* two adjacent runs describe one run of bytes
Joins(a, b) ==
    \/ a.id = 0 /\ b.id = 0
    \/ /\ a.id # 0 /\ b.id = a.id + a.len
       /\ b.smp = a.smp /\ b.ph = (a.ph + a.len) % 2

\* canonical form of a byte string: equal byte strings have equal forms
RECURSIVE Norm(_)
Norm(bs) ==
    IF Len(bs) < 2 THEN bs
    ELSE LET a == bs[1]
             b == bs[2]
         IN IF Joins(a, b)
            THEN Norm(<< [a EXCEPT !.len = a.len + b.len] >> \o SubSeq(bs, 3, Len(bs)))
            ELSE << a >> \o Norm(Tail(bs))

\* b''.join(chunks)
RECURSIVE Join(_)
Join(chunks) == IF chunks = << >> THEN << >> ELSE Head(chunks) \o Join(Tail(chunks))

\* value (0..255) of byte j of a run
RunByte(r, j) ==
    IF r.id = 0 THEN 0
    ELSE LET u == r.smp % 65536
         IN IF (r.ph + j) % 2 = 0 THEN u % 256 ELSE u \div 256

\* bs[k], k counted from 0
RECURSIVE ByteAt(_, _)
ByteAt(bs, k) ==
    IF k < Head(bs).len THEN RunByte(Head(bs), k)
    ELSE ByteAt(Tail(bs), k - Head(bs).len)

\* the peak over every sample of the buffer, whatever its length
AmplitudeOverAllSamples(audio_bytes) ==
    LET mags == {0} \cup { IF audio_bytes[k].smp < 0 THEN -audio_bytes[k].smp
                           ELSE audio_bytes[k].smp :
                           k \in { j \in 1 .. Len(audio_bytes) : audio_bytes[j].id # 0 } }
    IN CHOOSE x \in mags : \A y \in mags : y <= x

\* audio_devices.get_audio_amplitude
get_audio_amplitude(audio_bytes) ==
    IF BLen(audio_bytes) < MinAmplitudeBytes THEN 0
    ELSE LET num_samples == BLen(audio_bytes) \div 2
             \* range(0, min(num_samples, 1000), 10)
             idx == {AmplitudeStride * k :
                         k \in 0 .. ((Min(num_samples, MaxAmplitudeSamples) - 1)
                                         \div AmplitudeStride)}
             \* struct.unpack('<h', two bytes)
             unpack_h(b0, b1) ==
                 LET u == b0 + 256 * b1 IN IF u >= 32768 THEN u - 65536 ELSE u
             abs(x) == IF x < 0 THEN -x ELSE x
             values == {0} \cup {abs(unpack_h(ByteAt(audio_bytes, 2 * i),
                                              ByteAt(audio_bytes, 2 * i + 1))) : i \in idx}
         IN CHOOSE x \in values : \A y \in values : y <= x

\* ------------------------------------------------------------------------
\* State
\* ------------------------------------------------------------------------
VARIABLES
    device, sample_rate, channels,   \* PersistentAudioStream parameters
    _process,                        \* handle of the current arecord process
    _buffer,                         \* deque of chunks (byte strings)
    _buffer_lock,                    \* holder of the lock, Free when not held
    _running,
    procs,                           \* every arecord process ever spawned
    spawned,                         \* number of processes spawned
    rpc, rdata,                      \* reader threads: position, data read
    nextId,                          \* arrival number of the next device byte
    produced, readErrors,
    mpc, m_kind, bytes_needed, elapsed, result,   \* the caller (main thread)
    retKind,                         \* how the last read ended
    delivered, appended, capDropped, \* history of the byte stream
    _hardware_profile, _last_mute_state, _mute_counter,
    mute_state_file,                 \* config/.mute_state
    now,                             \* time.time(), in evaluations
    evalData,                        \* argument of the last mute evaluation
    evalAmp, evalPrev, evalBefore, evalRet, zeroRun,  \* history of the mute evaluations
    _audio_stream,                   \* the assistant's reference to its capture stream
    _audio_stream_channels,          \* channel count the probe chose
    play_device,                     \* output endpoint of the speak() in progress
    playback,                        \* how the playback of that speak() ended
    stoppedStream,                   \* parameters of the stream that speak() stopped
    probe,                           \* frame of _probe_capture_channels
    arecord,                         \* how the device answers a test capture, per channel count
    wake_word,                       \* the configured wake phrase (stripped, lower case)
    text,                            \* transcript of the recording
    wake,                            \* outcome of the wake-word match / of the cycle
    _oww_model,                      \* the openWakeWord model, NoModel when not loaded
    failed,                          \* what failed in the last listen_for_wake_word
    cycle,                           \* that cycle's calls, in order, and the spotter's score
    audio_device,                    \* the configured capture device identifier
    audio_channels,                  \* the configured channel count
    audio_sample_rate,               \* the configured sample rate
    proc_asound_cards,               \* the file /proc/asound/cards
    sysfs,                           \* the files of /sys/class/sound/card<N>/device
    ident,                           \* the identity get_device_identity returned
    settings_file,                   \* config/settings.json, with the number of the save that wrote it
    reload_signal,                   \* whether config/.reload_signal exists
    history_file,                    \* config/history.json
    portal,                          \* the request the portal process is handling
    rq,                              \* the history the assistant's record_query loaded
    loaded,                          \* number of the save the assistant loaded last
    done                             \* completed saves, record_stats and record_query calls

streamVars == << device, sample_rate, channels, _process, _buffer, _buffer_lock, _running >>
procVars == << procs, spawned >>
readerVars == << rpc, rdata, nextId, produced, readErrors >>
callerVars == << mpc, m_kind, bytes_needed, elapsed, result, retKind >>
histVars == << delivered, appended, capDropped >>
muteVars == << _hardware_profile, _last_mute_state, _mute_counter, mute_state_file, now,
               evalData, evalAmp, evalPrev, evalBefore, evalRet, zeroRun >>
asstVars == << _audio_stream, _audio_stream_channels, play_device, playback, stoppedStream >>
probeVars == << probe, arecord >>
wakeVars == << wake_word, text, wake, _oww_model, failed, cycle >>
storeVars == << settings_file, reload_signal, history_file, portal, rq, loaded, done >>
identVars == << audio_device, audio_channels, audio_sample_rate, proc_asound_cards, sysfs, ident,
                storeVars >>
pureVars == << probeVars, wakeVars, identVars >>

Threads == 1 .. MaxSpawns

bytes_per_second == sample_rate * channels * bytes_per_sample

chunk_size == bytes_per_second \div 10

\* Popen.poll() is None
PollIsNone(p) == procs[p].state \in {"alive", "terminating"}

NoProc == [state |-> "none", device |-> "", sample_rate |-> 0, channels |-> 0]

\* subprocess.Popen(cmd) of _start
Popen(dev, rate, ch) ==
    [state |-> "alive", device |-> dev, sample_rate |-> rate, channels |-> ch]

ReaderLoop(t) ==
    /\ rpc[t] = "loop"
    /\ rpc' = [rpc EXCEPT ![t] = IF _running /\ _process # None /\ PollIsNone(_process) THEN "read" ELSE "after"]
    /\ UNCHANGED << streamVars, procVars, rdata, nextId, produced, readErrors,
                    callerVars, histVars, muteVars, asstVars, pureVars >>

\* data = self._process.stdout.read(chunk_size): a whole chunk from a live process
ReaderReadChunk(t, samples) ==
    /\ rpc[t] = "read"
    /\ PollIsNone(_process)
    /\ produced < MaxProduced
    /\ \E smp \in samples :
          rdata' = [rdata EXCEPT ![t] = << Run(nextId, chunk_size, smp, 0) >>]
    /\ nextId' = nextId + chunk_size
    /\ produced' = produced + 1
    /\ rpc' = [rpc EXCEPT ![t] = "lock"]
    /\ UNCHANGED << streamVars, procVars, readErrors, callerVars, histVars, muteVars, asstVars, pureVars >>

\* ... or, once the process has exited, what is left in the pipe (short of a whole
\* chunk) or b'' at end of file
ReaderReadEOF(t, samples) ==
    /\ rpc[t] = "read"
    /\ ~PollIsNone(_process)
    /\ \E n \in {0, 1000} :
          IF n > 0
          THEN /\ produced < MaxProduced
               /\ \E smp \in samples :
                     rdata' = [rdata EXCEPT ![t] = << Run(nextId, n, smp, 0) >>]
               /\ nextId' = nextId + n
               /\ produced' = produced + 1
               /\ rpc' = [rpc EXCEPT ![t] = "lock"]
          ELSE /\ rdata' = [rdata EXCEPT ![t] = << >>]
               /\ rpc' = [rpc EXCEPT ![t] = "loop"]
               /\ UNCHANGED << nextId, produced, pureVars >>
    /\ UNCHANGED << streamVars, procVars, readErrors, callerVars, histVars, muteVars, asstVars, pureVars >>

\* except Exception: break
ReaderReadError(t) ==
    /\ rpc[t] = "read"
    /\ readErrors < MaxReadErrors
    /\ readErrors' = readErrors + 1
    /\ rpc' = [rpc EXCEPT ![t] = "after"]
    /\ UNCHANGED << streamVars, procVars, rdata, nextId, produced, callerVars, histVars, muteVars, asstVars, pureVars >>

\* with self._buffer_lock:
ReaderLock(t) ==
    /\ rpc[t] = "lock"
    /\ _buffer_lock = Free
    /\ _buffer_lock' = t
    /\ rpc' = [rpc EXCEPT ![t] = "append"]
    /\ UNCHANGED << device, sample_rate, channels, _process, _buffer, _running, procVars,
                    rdata, nextId, produced, readErrors, callerVars, histVars, muteVars, asstVars, pureVars >>

\* a cap that keeps the oldest chunks and drops the newest
DropNewest(buf) == IF Len(buf) > max_chunks THEN SubSeq(buf, 1, max_chunks) ELSE buf

\* while len(self._buffer) > max_chunks: self._buffer.popleft()
RECURSIVE DropOldest(_)
DropOldest(buf) == IF Len(buf) > max_chunks THEN DropOldest(Tail(buf)) ELSE buf

\* self._buffer.append(data), then the cap
AppendChunk(buf, data) == DropOldest(Append(buf, data))

\* an append that leaves the with-block without releasing the lock
ReaderAppendKeepsLock(t) ==
    /\ rpc[t] = "append"
    /\ _buffer_lock = t
    /\ _buffer' = AppendChunk(_buffer, rdata[t])
    /\ appended' = rdata[t][Len(rdata[t])].id + rdata[t][Len(rdata[t])].len - 1
    /\ capDropped' = (capDropped \/ Len(_buffer) + 1 > max_chunks)
    /\ rpc' = [rpc EXCEPT ![t] = "loop"]
    /\ UNCHANGED << device, sample_rate, channels, _process, _running, _buffer_lock, procVars,
                    rdata, nextId, produced, readErrors, callerVars, delivered, muteVars, asstVars, pureVars >>

ReaderAppend(t) ==
    /\ rpc[t] = "append"
    /\ _buffer_lock = t
    /\ _buffer' = AppendChunk(_buffer, rdata[t])
    /\ _buffer_lock' = Free
    /\ appended' = rdata[t][Len(rdata[t])].id + rdata[t][Len(rdata[t])].len - 1
    /\ capDropped' = (capDropped \/ Len(_buffer) + 1 > max_chunks)
    /\ rpc' = [rpc EXCEPT ![t] = "loop"]
    /\ UNCHANGED << device, sample_rate, channels, _process, _running, procVars,
                    rdata, nextId, produced, readErrors, callerVars, delivered, muteVars, asstVars, pureVars >>

\* a reader thread that gives up when its loop ends
RestartNever == FALSE

\* if self._running:   (after the loop)
RestartWanted == _running

ReaderAfter(t) ==
    /\ rpc[t] = "after"
    /\ rpc' = [rpc EXCEPT ![t] = IF RestartWanted THEN "sleep" ELSE "done"]
    /\ UNCHANGED << streamVars, procVars, rdata, nextId, produced, readErrors,
                    callerVars, histVars, muteVars, asstVars, pureVars >>

\* time.sleep(0.5); then _start(): self._running = True
StartFlag(t) ==
    /\ rpc[t] = "sleep"
    /\ _running' = TRUE
    /\ rpc' = [rpc EXCEPT ![t] = "start_popen"]
    /\ UNCHANGED << device, sample_rate, channels, _process, _buffer, _buffer_lock, procVars,
                    rdata, nextId, produced, readErrors, callerVars, histVars, muteVars, asstVars, pureVars >>

\* a _start() whose caller goes back into its own loop next to the new thread
StartPopenCallerLoops(t) ==
    /\ rpc[t] = "start_popen"
    /\ spawned < MaxSpawns
    /\ spawned' = spawned + 1
    /\ procs' = [procs EXCEPT ![spawned + 1] = Popen(device, sample_rate, channels)]
    /\ _process' = spawned + 1
    /\ rpc' = [rpc EXCEPT ![t] = "loop", ![spawned + 1] = "loop"]
    /\ UNCHANGED << device, sample_rate, channels, _buffer, _buffer_lock, _running,
                    rdata, nextId, produced, readErrors, callerVars, histVars, muteVars, asstVars, pureVars >>

\* a _start() that begins with an empty buffer
StartPopenClearsBuffer(t) ==
    /\ rpc[t] = "start_popen"
    /\ spawned < MaxSpawns
    /\ spawned' = spawned + 1
    /\ procs' = [procs EXCEPT ![spawned + 1] = Popen(device, sample_rate, channels)]
    /\ _process' = spawned + 1
    /\ _buffer' = << >>
    /\ rpc' = [rpc EXCEPT ![t] = "done", ![spawned + 1] = "loop"]
    /\ UNCHANGED << device, sample_rate, channels, _buffer_lock, _running,
                    rdata, nextId, produced, readErrors, callerVars, histVars, muteVars, asstVars, pureVars >>

\* _start(): self._process = subprocess.Popen(cmd, ...); a new reader thread is
\* started on _reader_loop and the calling thread ends
StartPopen(t) ==
    /\ rpc[t] = "start_popen"
    /\ spawned < MaxSpawns
    /\ spawned' = spawned + 1
    /\ procs' = [procs EXCEPT ![spawned + 1] = Popen(device, sample_rate, channels)]
    /\ _process' = spawned + 1
    /\ rpc' = [rpc EXCEPT ![t] = "done", ![spawned + 1] = "loop"]
    /\ UNCHANGED << device, sample_rate, channels, _buffer, _buffer_lock, _running,
                    rdata, nextId, produced, readErrors, callerVars, histVars, muteVars, asstVars, pureVars >>

\* the capture process exits on its own or after SIGTERM
ProcExit(p) ==
    /\ PollIsNone(p)
    /\ procs' = [procs EXCEPT ![p].state = "dead"]
    /\ UNCHANGED << streamVars, spawned, readerVars, callerVars, histVars, muteVars, asstVars, pureVars >>

\* bytes_per_frame = self._oww_frame_size * 2 * self._audio_stream_channels
bytes_per_frame == oww_frame_size * 2 * channels

\* a wait without a timeout
StillWaitingForever(el) == TRUE

\* while time.time() - start < timeout
StillWaiting(el) == el < MaxPolls

\* while len(result) < bytes_needed and self._buffer: result += self._buffer.popleft()
RECURSIVE Collect(_, _, _)
Collect(buf, res, n) ==
    IF BLen(res) < n /\ buf # << >>
    THEN Collect(Tail(buf), res \o Head(buf), n)
    ELSE [result |-> res, buffer |-> buf]

\* an append in place of the appendleft
PutBackRight(excess, buf) == buf \o << excess >>

\* self._buffer.appendleft(excess)
PutBack(excess, buf) == << excess >> \o buf

\* the branch taken when total_buffered >= bytes_needed
SatisfiedRead(buf, n) ==
    LET c == Collect(buf, << >>, n)
    IN IF BLen(c.result) > n
       THEN [result |-> Norm(BTake(c.result, n)),
             buffer |-> PutBack(Norm(BDrop(c.result, n)), c.buffer)]
       ELSE [result |-> Norm(c.result), buffer |-> c.buffer]

\* a padding that puts the silence in front of the buffered bytes
PadFront(res, n) == IF BLen(res) < n THEN Zeros(n - BLen(res)) \o res ELSE res

\* if len(result) < bytes_needed: result += b'\x00' * (bytes_needed - len(result))
Pad(res, n) == IF BLen(res) < n THEN res \o Zeros(n - BLen(res)) ELSE res

\* a timeout path that returns what is buffered, unpadded
TimeoutReadUnpadded(buf, n) == Norm(Join(buf))

\* the timeout path: join, clear, pad, result[:bytes_needed]
TimeoutRead(buf, n) ==
    LET padded == Pad(Join(buf), n)
    IN Norm(IF BLen(padded) > n THEN BTake(padded, n) ELSE padded)

\* arrival number of the last device byte of a byte string, or d when it has none
RECURSIVE LastId(_, _)
LastId(bs, d) ==
    IF bs = << >> THEN d
    ELSE LastId(Tail(bs), IF Head(bs).id = 0 THEN d ELSE Head(bs).id + Head(bs).len - 1)

ReadCall(kind, n) ==
    /\ mpc = "idle"
    /\ m_kind' = kind
    /\ bytes_needed' = n
    /\ elapsed' = 0
    /\ result' = << >>
    /\ retKind' = "none"
    /\ mpc' = "r_loop"
    /\ UNCHANGED << streamVars, procVars, readerVars, histVars, muteVars, asstVars, pureVars >>

ReadSecondsCall == \E d \in {150} : ReadCall("read_seconds", (d * bytes_per_second) \div 1000)

ReadBytesCall == ReadCall("read_bytes", bytes_per_frame)

\* loop test, then "with self._buffer_lock:" of the poll or of the timeout path
ReadLock ==
    /\ mpc = "r_loop"
    /\ _buffer_lock = Free
    /\ _buffer_lock' = MainThread
    /\ mpc' = IF StillWaiting(elapsed) THEN "r_poll" ELSE "r_timeout"
    /\ UNCHANGED << device, sample_rate, channels, _process, _buffer, _running, procVars,
                    readerVars, m_kind, bytes_needed, elapsed, result, retKind,
                    histVars, muteVars, asstVars, pureVars >>

ReadPoll ==
    /\ mpc = "r_poll"
    /\ _buffer_lock = MainThread
    /\ _buffer_lock' = Free
    /\ LET total_buffered == BLen(Join(_buffer))
       IN IF total_buffered >= bytes_needed
          THEN LET r == SatisfiedRead(_buffer, bytes_needed)
               IN /\ result' = r.result
                  /\ _buffer' = r.buffer
                  /\ retKind' = "satisfied"
                  /\ delivered' = LastId(r.result, delivered)
                  /\ mpc' = "idle"
          ELSE /\ mpc' = "r_sleep"
               /\ UNCHANGED << result, _buffer, retKind, delivered, pureVars >>
    /\ UNCHANGED << device, sample_rate, channels, _process, _running, procVars, readerVars,
                    m_kind, bytes_needed, elapsed, appended, capDropped, muteVars, asstVars, pureVars >>

\* time.sleep(0.05) / time.sleep(0.01): at least one interval passes
ReadSleep ==
    /\ mpc = "r_sleep"
    /\ \E e \in (elapsed + 1) .. MaxPolls : elapsed' = e
    /\ mpc' = "r_loop"
    /\ UNCHANGED << streamVars, procVars, readerVars, m_kind, bytes_needed, result,
                    retKind, histVars, muteVars, asstVars, pureVars >>

ReadTimeout ==
    /\ mpc = "r_timeout"
    /\ _buffer_lock = MainThread
    /\ _buffer_lock' = Free
    /\ result' = TimeoutRead(_buffer, bytes_needed)
    /\ _buffer' = << >>
    /\ retKind' = "timeout"
    /\ delivered' = LastId(result', delivered)
    /\ mpc' = "idle"
    /\ UNCHANGED << device, sample_rate, channels, _process, _running, procVars, readerVars,
                    m_kind, bytes_needed, elapsed, appended, capDropped, muteVars, asstVars, pureVars >>

\* ------------------------------------------------------------------------
\* stop()
\* ------------------------------------------------------------------------
\* self._running = False
StopFlag ==
    /\ mpc = "idle"
    /\ _running' = FALSE
    /\ mpc' = "stop_terminate"
    /\ UNCHANGED << device, sample_rate, channels, _process, _buffer, _buffer_lock, procVars,
                    readerVars, m_kind, bytes_needed, elapsed, result, retKind,
                    histVars, muteVars, asstVars, pureVars >>

\* Popen.terminate(): SIGTERM to a process that has not exited yet
Terminate(p) == IF p.state = "alive" THEN [p EXCEPT !.state = "terminating"] ELSE p

\* if self._process: self._process.terminate()
StopTerminate ==
    /\ mpc = "stop_terminate"
    /\ procs' = IF _process # None
                THEN [procs EXCEPT ![_process] = Terminate(procs[_process])]
                ELSE procs
    /\ mpc' = IF _process # None THEN "stop_wait" ELSE "stopped"
    /\ UNCHANGED << streamVars, spawned, readerVars, m_kind, bytes_needed, elapsed, result,
                    retKind, histVars, muteVars, asstVars, pureVars >>

\* self._process.wait(timeout=2) returns: the process has exited
StopWaitExited ==
    /\ mpc = "stop_wait"
    /\ ~PollIsNone(_process)
    /\ mpc' = "stopped"
    /\ UNCHANGED << streamVars, procVars, readerVars, m_kind, bytes_needed, elapsed, result,
                    retKind, histVars, muteVars, asstVars, pureVars >>

\* wait raised TimeoutExpired: self._process.kill()
StopWaitKill ==
    /\ mpc = "stop_wait"
    /\ PollIsNone(_process)
    /\ procs' = [procs EXCEPT ![_process].state = "dead"]
    /\ mpc' = "stopped"
    /\ UNCHANGED << streamVars, spawned, readerVars, m_kind, bytes_needed, elapsed, result,
                    retKind, histVars, muteVars, asstVars, pureVars >>

\* ------------------------------------------------------------------------
\* speak() and the release of the capture device around playback
\* ------------------------------------------------------------------------
_audio_stream_device == "hw:2,0"

_capture_sample_rate == 16000

NoStream == [device |-> "", sample_rate |-> 0, channels |-> 0]

\* constructor arguments of the stream object the variables describe
StreamParams == [device |-> device, sample_rate |-> sample_rate, channels |-> channels]

\* a speak() that never releases the capture device
NeedsDuplexReleaseNever(dev) == FALSE

\* needs_duplex_release = play_device != 'default'
NeedsDuplexRelease(dev) == dev # "default"

\* speak(text) up to the playback: with a non-default endpoint
\* _stop_audio_stream_for_playback calls stop() on the stream held, whose first
\* statement is self._running = False
SpeakBegin(dev) ==
    /\ play_device' = dev
    /\ playback' = "none"
    /\ IF NeedsDuplexRelease(dev) /\ _audio_stream # None
       THEN /\ _running' = FALSE
            /\ stoppedStream' = StreamParams
            /\ mpc' = "stop_terminate"
       ELSE /\ stoppedStream' = NoStream
            /\ mpc' = "playback"
            /\ UNCHANGED _running
    /\ UNCHANGED << device, sample_rate, channels, _process, _buffer, _buffer_lock, procVars,
                    readerVars, m_kind, bytes_needed, elapsed, result, retKind,
                    histVars, muteVars, _audio_stream, _audio_stream_channels >>

SpeakCall(dev) == mpc = "idle" /\ SpeakBegin(dev) /\ UNCHANGED pureVars

\* a reload that initialises the spotter again for the new wake phrase
CheckReloadReinitsSpotter(settings, dev) ==
    /\ mpc = "idle"
    /\ wake_word' = settings.wake_word
    /\ audio_device' = settings.audio_input_device
    /\ audio_channels' = settings.audio_channels
    /\ audio_sample_rate' = settings.audio_sample_rate
    /\ _oww_model' = IF settings.wake_word # wake_word THEN "" ELSE _oww_model
    /\ IF settings.wake_word # wake_word
       THEN SpeakBegin(dev)
       ELSE UNCHANGED << streamVars, procVars, readerVars, callerVars, histVars, muteVars,
                         asstVars >>
    /\ UNCHANGED << probeVars, text, wake, failed, cycle, proc_asound_cards, sysfs,
                    ident, storeVars >>

\* check_reload when the signal file exists: _load_settings, then
\* speak("Wake word changed ...") when the wake word is another one.  dev is the
\* audio_output_device of the settings.
CheckReload(settings, dev) ==
    /\ mpc = "idle"
    /\ wake_word' = settings.wake_word
    /\ audio_device' = settings.audio_input_device
    /\ audio_channels' = settings.audio_channels
    /\ audio_sample_rate' = settings.audio_sample_rate
    /\ IF settings.wake_word # wake_word
       THEN SpeakBegin(dev)
       ELSE UNCHANGED << streamVars, procVars, readerVars, callerVars, histVars, muteVars,
                         asstVars >>
    /\ UNCHANGED << probeVars, text, wake, _oww_model, failed, cycle, proc_asound_cards,
                    sysfs, ident, storeVars >>

\* stop() has returned: self._audio_stream = None
SpeakDiscard ==
    /\ mpc = "stopped"
    /\ _audio_stream' = None
    /\ mpc' = "playback"
    /\ UNCHANGED << streamVars, procVars, readerVars, m_kind, bytes_needed, elapsed, result,
                    retKind, histVars, muteVars, _audio_stream_channels, play_device,
                    playback, stoppedStream, pureVars >>

\* the try block of speak: _speak_gtts / _speak_espeak / _speak_pyttsx3
Playback(outcome) ==
    /\ mpc = "playback"
    /\ playback' = outcome
    /\ mpc' = "finally"
    /\ UNCHANGED << streamVars, procVars, readerVars, m_kind, bytes_needed, elapsed, result,
                    retKind, histVars, muteVars, _audio_stream, _audio_stream_channels,
                    play_device, stoppedStream, pureVars >>

\* finally: nothing to restart (default endpoint, or a stream is held)
SpeakReturn ==
    /\ mpc = "finally"
    /\ ~NeedsDuplexRelease(play_device) \/ _audio_stream # None
    /\ mpc' = "idle"
    /\ UNCHANGED << streamVars, procVars, readerVars, m_kind, bytes_needed, elapsed, result,
                    retKind, histVars, muteVars, asstVars, pureVars >>

\* finally: _restart_audio_stream_after_playback constructs a PersistentAudioStream,
\* a new object with its own buffer, lock, process and reader thread.  The reader
\* threads of the discarded object keep that object to themselves and are not
\* followed any further.
SpeakRestart ==
    /\ mpc = "finally"
    /\ NeedsDuplexRelease(play_device) /\ _audio_stream = None
    /\ spawned < MaxSpawns
    /\ device' = _audio_stream_device
    /\ sample_rate' = _capture_sample_rate
    /\ channels' = _audio_stream_channels
    /\ _buffer' = << >>
    /\ _buffer_lock' = Free
    /\ _running' = TRUE
    /\ spawned' = spawned + 1
    /\ procs' = [procs EXCEPT ![spawned + 1] =
                     Popen(_audio_stream_device, _capture_sample_rate, _audio_stream_channels)]
    /\ _process' = spawned + 1
    /\ rpc' = [t \in Threads |->
                  IF t = spawned + 1 THEN "loop"
                  ELSE IF rpc[t] \in {"unborn", "done"} THEN rpc[t] ELSE "abandoned"]
    /\ _audio_stream' = spawned + 1
    /\ delivered' = nextId - 1
    /\ appended' = nextId - 1
    /\ capDropped' = FALSE
    /\ mpc' = "idle"
    /\ UNCHANGED << rdata, nextId, produced, readErrors, m_kind, bytes_needed, elapsed,
                    result, retKind, muteVars, _audio_stream_channels, play_device,
                    playback, stoppedStream, pureVars >>

\* finally: subprocess.Popen raises in the constructor; the exception is caught
\* and printed by _restart_audio_stream_after_playback
SpeakRestartRaises ==
    /\ mpc = "finally"
    /\ NeedsDuplexRelease(play_device) /\ _audio_stream = None
    /\ mpc' = "idle"
    /\ UNCHANGED << streamVars, procVars, readerVars, m_kind, bytes_needed, elapsed, result,
                    retKind, histVars, muteVars, asstVars, pureVars >>

SpeakStep == SpeakDiscard \/ SpeakReturn \/ SpeakRestart \/ SpeakRestartRaises

\* ------------------------------------------------------------------------
\* VoiceAssistant._probe_capture_channels
\* ------------------------------------------------------------------------
\* channel counts a setting or a profile can prefer
ChannelCounts == {1, 2, 4}

\* result.returncode == 0 and 'Channels count non available' not in stderr
Accepted(outcome) == outcome = "ok"

SeqElems(seq) == {seq[i] : i \in 1 .. Len(seq)}

\* a probe that tests the preferred count only
CandidatesPreferredOnly(preferred) == << preferred >>

\* candidates: preferred when it is 1 or 2, then 1 and 2 unless already there
Candidates(preferred) ==
    LET first == IF preferred \in {1, 2} THEN << preferred >> ELSE << >>
    IN first \o SelectSeq(<< 1, 2 >>, LAMBDA c : c \notin SeqElems(first))

NoProbe == [pc |-> "none", preferred |-> None, candidates |-> << >>, tried |-> << >>,
            ret |-> None]

\* _probe_capture_channels(device, sample_rate, preferred) entered
ProbeCalled(preferred) ==
    [pc |-> "loop", preferred |-> preferred, candidates |-> Candidates(preferred),
     tried |-> << >>, ret |-> None]

\* one turn of "for channels in candidates": a test capture; return channels when it
\* is accepted, continue otherwise (also when subprocess.run raised).  The caller
\* stores the value returned in self._audio_stream_channels.
ProbeTry ==
    /\ probe.pc = "loop"
    /\ probe.candidates # << >>
    /\ LET c == Head(probe.candidates)
       IN IF Accepted(arecord[c])
          THEN /\ probe' = [probe EXCEPT !.pc = "returned", !.ret = c,
                                         !.tried = Append(@, c), !.candidates = Tail(@)]
               /\ _audio_stream_channels' = c
          ELSE /\ probe' = [probe EXCEPT !.tried = Append(@, c), !.candidates = Tail(@)]
               /\ UNCHANGED _audio_stream_channels
    /\ UNCHANGED << streamVars, procVars, readerVars, callerVars, histVars, muteVars,
                    _audio_stream, play_device, playback, stoppedStream, arecord, wakeVars, identVars >>

\* the loop ended without a return: return preferred
ProbeFallback ==
    /\ probe.pc = "loop"
    /\ probe.candidates = << >>
    /\ probe' = [probe EXCEPT !.pc = "returned", !.ret = probe.preferred]
    /\ _audio_stream_channels' = probe.preferred
    /\ UNCHANGED << streamVars, procVars, readerVars, callerVars, histVars, muteVars,
                    _audio_stream, play_device, playback, stoppedStream, arecord, wakeVars, identVars >>

\* ------------------------------------------------------------------------
\* The fallback wake-word match of listen_for_wake_word (lines 761-791).
\* A string is a sequence of one-character strings.
\* ------------------------------------------------------------------------
UpperCase == << "A", "B", "C", "D", "E", "F", "G", "H", "I", "J", "K", "L", "M", "N", "O", "P", "Q", "R", "S", "T", "U", "V", "W", "X", "Y", "Z" >>

LowerCase == << "a", "b", "c", "d", "e", "f", "g", "h", "i", "j", "k", "l", "m", "n", "o", "p", "q", "r", "s", "t", "u", "v", "w", "x", "y", "z" >>

Digits == { "0", "1", "2", "3", "4", "5", "6", "7", "8", "9" }

Whitespace == { " ", "\n" }

\* str.lower()
lower(str) ==
    [i \in 1 .. Len(str) |->
        IF \E k \in 1 .. 26 : UpperCase[k] = str[i]
        THEN LowerCase[CHOOSE k \in 1 .. 26 : UpperCase[k] = str[i]]
        ELSE str[i]]

\* re.sub(r'[^a-z0-9]+', '', str)
normalize(str) == SelectSeq(str, LAMBDA c : c \in SeqElems(LowerCase) \cup Digits)

\* sub in str
Contains(sub, str) ==
    /\ Len(sub) <= Len(str)
    /\ \E i \in 0 .. (Len(str) - Len(sub)) : SubSeq(str, i + 1, i + Len(sub)) = sub

\* str.find(sub), counted from 0, for a sub that str contains
Find(sub, str) ==
    CHOOSE i \in 0 .. (Len(str) - Len(sub)) :
        /\ SubSeq(str, i + 1, i + Len(sub)) = sub
        /\ \A j \in 0 .. (i - 1) : SubSeq(str, j + 1, j + Len(sub)) # sub

\* str.split(sep, 1) for a non-empty sep
split(str, sep) ==
    IF Contains(sep, str)
    THEN << SubSeq(str, 1, Find(sep, str)),
            SubSeq(str, Find(sep, str) + Len(sep) + 1, Len(str)) >>
    ELSE << str >>

\* str.strip()
RECURSIVE lstrip(_)
lstrip(str) == IF str # << >> /\ Head(str) \in Whitespace THEN lstrip(Tail(str)) ELSE str

RECURSIVE rstrip(_)
rstrip(str) ==
    IF str # << >> /\ str[Len(str)] \in Whitespace
    THEN rstrip(SubSeq(str, 1, Len(str) - 1)) ELSE str

strip(str) == rstrip(lstrip(str))

W ==
    [ jetson |-> << "j", "e", "t", "s", "o", "n" >>,
      computer |-> << "c", "o", "m", "p", "u", "t", "e", "r" >>,
      assistant |-> << "a", "s", "s", "i", "s", "t", "a", "n", "t" >> ]

\* the table of known misrecognitions, as written in the source
MisrecognitionAliases(normalized_wake) ==
    IF normalized_wake = W.computer
    THEN { << "c", "o", "m", "e", "h", "e", "r", "e" >>, << "c", "o", "m", "p", "u", "t", "e" >>, << "c", "o", "m", "m", "u", "t", "e", "r" >> }
    ELSE IF normalized_wake = W.assistant
    THEN { << "a", "a", "s", "s", "i", "s", "t", "a", "n", "t" >> }
    ELSE IF normalized_wake = W.jetson
    THEN { << "j", "e", "t", "s", "o", "n" >>, << "j", "e", "t", "s", "o", "n", "n" >>, << "j", "e", "t", "s", "o", "n", "n", "n" >>, << "j", "e", "t", "s", "o", "n", " ", "t", "e", "s", "t", "i", "n", "g" >> }
    ELSE { }

\* a match without alias table and without normalised phrase
WakeAliasesNone(normalized_wake) == { }

\* wake_aliases: the normalised phrase when not empty, the table entries,
\* each normalised, the empty ones dropped
WakeAliases(normalized_wake) ==
    { normalize(lower(a)) :
        a \in (IF normalized_wake # << >> THEN { normalized_wake } ELSE { })
                  \cup MisrecognitionAliases(normalized_wake) } \ { << >> }

\* the trailing command of a return value: None or a string
NoCommand == [none |-> TRUE, str |-> << >>]

Command(str) == [none |-> FALSE, str |-> str]

\* lines 761-791 for a transcript that is not empty: (detected, trailing), and
\* whether the except clause of listen_for_wake_word produced it
WakeMatch(word, heard) ==
    LET text_lower == lower(heard)
        normalized_text == normalize(text_lower)
        normalized_wake == normalize(lower(word))
        matched == \/ Contains(word, text_lower)
                   \/ \E a \in WakeAliases(normalized_wake) : Contains(a, normalized_text)
    IN IF ~matched
       THEN [detected |-> FALSE, trailing |-> NoCommand, caught |-> FALSE]
       ELSE IF word = << >>
       \* text_lower.split('', 1) raises ValueError('empty separator')
       THEN [detected |-> FALSE, trailing |-> NoCommand, caught |-> TRUE]
       ELSE LET parts == split(text_lower, word)
                trailing == IF Len(parts) > 1 THEN strip(parts[2]) ELSE << >>
            IN [detected |-> TRUE,
                trailing |-> IF trailing # << >> THEN Command(trailing) ELSE NoCommand,
                caught |-> FALSE]

\* fragments of transcripts
T ==
    [ hey |-> << "h", "e", "y", " " >>,
      jetson |-> << "j", "e", "t", "s", "o", "n" >>,
      Jetson |-> << "J", "e", "t", "s", "o", "n" >>,
      jet_son |-> << "j", "e", "t", " ", "s", "o", "n" >>,
      jetsonn |-> << "j", "e", "t", "s", "o", "n", "n" >>,
      what_time_is_it |-> << " ", "w", "h", "a", "t", " ", "t", "i", "m", "e", " ", "i", "s", " ", "i", "t" >>,
      turn_on_the_light |-> << " ", "t", "u", "r", "n", " ", "o", "n", " ", "t", "h", "e", " ", "l", "i", "g", "h", "t" >>,
      good_morning |-> << "g", "o", "o", "d", " ", "m", "o", "r", "n", "i", "n", "g" >>,
      commuter |-> << "c", "o", "m", "m", "u", "t", "e", "r" >>,
      bang |-> << "!" >> ]

\* the transcripts put together from at most n fragments
RECURSIVE TranscriptsUpTo(_)
TranscriptsUpTo(n) ==
    IF n = 0 THEN { << >> }
    ELSE LET shorter == TranscriptsUpTo(n - 1)
         IN shorter \cup { t \o tok : t \in shorter, tok \in { T[k] : k \in DOMAIN T } }

\* self._oww_model = None
NoModel == ""

NotListening ==
    /\ wake_word = W.jetson
    /\ text = << >>
    /\ wake = [pc |-> "none", detected |-> FALSE, trailing |-> NoCommand, caught |-> FALSE]
    /\ _oww_model = NoModel
    /\ failed = "none"
    /\ cycle = [calls |-> << >>, score |-> 0]

\* the match applied to the transcript
WakeMatchStep ==
    /\ wake.pc = "heard"
    /\ wake' = [pc |-> "returned"] @@ WakeMatch(wake_word, text)
    /\ UNCHANGED << streamVars, procVars, readerVars, callerVars, histVars, muteVars,
                    asstVars, probeVars, wake_word, text, _oww_model, failed, cycle, identVars >>

\* ------------------------------------------------------------------------
\* Hardware profiles (hardware_profiles.py) and the mute detector
\* ------------------------------------------------------------------------
HardwareProfile(name, prefer, mute) ==
    [name |-> name, prefer_capture_channels |-> prefer, mute_detection |-> mute]

JabraSpeak == HardwareProfile("jabra_speak", 1, "amplitude_zero")

AnkerPowerConf == HardwareProfile("anker_powerconf_s330", 2, "none")

DefaultProfile == HardwareProfile("default", None, "none")

\* the value of getattr(self, '_hardware_profile', None) when the attribute is unset
NoProfile == HardwareProfile("", None, "")

\* a detector that ignores the profile's strategy
InfersMuteAlways(profile) == TRUE

\* not (profile is None or mute_detection != 'amplitude_zero')
InfersMute(profile) == profile # NoProfile /\ profile.mute_detection = "amplitude_zero"

\* a detector without debounce
ThresholdReachedAtOnce(counter) == counter >= 1

\* if self._mute_counter >= 2
ThresholdReached(counter) == counter >= MuteThreshold

\* a non-zero reading that does not restart the count
HysteresisKeepsCount(last, counter, amp) ==
    IF amp = 0
    THEN IF ~last
         THEN IF ThresholdReached(counter + 1)
              THEN [state |-> TRUE, counter |-> 0]
              ELSE [state |-> FALSE, counter |-> counter + 1]
         ELSE [state |-> TRUE, counter |-> 0]
    ELSE [state |-> FALSE, counter |-> counter]

\* a muted state that a non-zero reading does not clear
HysteresisSticky(last, counter, amp) ==
    IF amp = 0
    THEN IF ~last
         THEN IF ThresholdReached(counter + 1)
              THEN [state |-> TRUE, counter |-> 0]
              ELSE [state |-> FALSE, counter |-> counter + 1]
         ELSE [state |-> TRUE, counter |-> 0]
    ELSE [state |-> last, counter |-> 0]

\* a detector that does not clear the count when it becomes muted
HysteresisCountsOn(last, counter, amp) ==
    IF amp = 0
    THEN IF ~last
         THEN [state |-> ThresholdReached(counter + 1), counter |-> counter + 1]
         ELSE [state |-> TRUE, counter |-> 0]
    ELSE [state |-> FALSE, counter |-> 0]

\* the amplitude_zero branch: new (state, counter) for a reading
Hysteresis(last, counter, amp) ==
    IF amp = 0
    THEN IF ~last
         THEN IF ThresholdReached(counter + 1)
              THEN [state |-> TRUE, counter |-> 0]
              ELSE [state |-> FALSE, counter |-> counter + 1]
         ELSE [state |-> TRUE, counter |-> 0]
    ELSE [state |-> FALSE, counter |-> 0]

\* check_and_update_mute_status: new state, new counter, published and returned value
MuteEvalAmp(profile, last, counter, amp) ==
    IF ~InfersMute(profile)
    THEN [state |-> FALSE, counter |-> 0, written |-> FALSE, ret |-> FALSE]
    ELSE LET h == Hysteresis(last, counter, amp)
         IN [state |-> h.state, counter |-> h.counter, written |-> h.state, ret |-> h.state]

\* audio_devices.write_mute_state: json.dump({'is_muted': ..., 'timestamp': time.time()})
write_mute_state(is_muted, t) == [written |-> TRUE, is_muted |-> is_muted, timestamp |-> t]

\* a detector that writes the file only when the state changed
PublishedOnChange(file, before, is_muted, t) ==
    IF is_muted # before THEN write_mute_state(is_muted, t) ELSE file

\* the file after an evaluation: write_mute_state is called on every path
Published(file, before, is_muted, t) == write_mute_state(is_muted, t)

\* buffers handed to the detector: a frame of padding, of device zeros, of
\* signal, of faint signal, of full-scale negative samples, device zeros followed
\* by signal, zeros but for one sample between two analysed ones, a buffer too
\* short to analyse, b''
AudioInputs ==
    { Zeros(2560),
      << Run(1, 2560, 0, 0) >>,
      << Run(1, 2560, 300, 0) >>,
      << Run(1, 2560, 29, 0) >>,
      << Run(1, 2560, -32768, 0) >>,
      << Run(1, 2000, 0, 0), Run(2001, 560, 300, 0) >>,
      << Run(1, 2, 0, 0), Run(3, 2, 300, 0), Run(5, 2556, 0, 0) >>,
      << Run(1, 98, 300, 0) >>,
      << Run(1, 99, 300, 0) >>,
      << Run(1, 100, 300, 0) >>,
      << Run(1, 20, 0, 0), Run(21, 2, -5, 0), Run(23, 2538, 0, 0) >>,
      << Run(1, 20, 7, 0), Run(21, 2, -5, 0), Run(23, 99, 2, 0) >>,
      << >> }

\* the effect of check_and_update_mute_status(audio_data) on the assistant
\* (amp is get_audio_amplitude(data))
MuteUpdateAmp(data, amp) ==
    /\ LET e == MuteEvalAmp(_hardware_profile, _last_mute_state, _mute_counter, amp)
       IN /\ _last_mute_state' = e.state
          /\ _mute_counter' = e.counter
          /\ now' = IF now < MaxClock THEN now + 1 ELSE now
          /\ mute_state_file' = Published(mute_state_file, _last_mute_state, e.written, now')
          /\ evalAmp' = amp
          /\ evalPrev' = evalAmp
          /\ evalBefore' = _last_mute_state
          /\ evalRet' = e.ret
          /\ zeroRun' = IF amp = 0 THEN Min(zeroRun + 1, ZeroRunCap) ELSE 0
    /\ evalData' = data
    /\ UNCHANGED _hardware_profile

CheckAndUpdateMuteStatus(data) ==
    /\ mpc = "idle"
    /\ MuteUpdateAmp(data, get_audio_amplitude(data))
    /\ UNCHANGED << streamVars, procVars, readerVars, callerVars, histVars, asstVars, pureVars >>

\* ------------------------------------------------------------------------
\* listen_for_wake_word, one cycle (lines 682-794)
\* ------------------------------------------------------------------------
\* amp < 30: the gate in front of the transcription
LowSignal == 30

\* if score > 0.5, in hundredths
OwwThreshold == 50

Return(detected, trailing, what) ==
    [pc |-> "returned", detected |-> detected, trailing |-> trailing, caught |-> FALSE,
     failed |-> what]

Raise(what) ==
    [pc |-> "raised", detected |-> FALSE, trailing |-> NoCommand, caught |-> FALSE,
     failed |-> what]

\* a threshold that a score equal to it passes
SpottedAtThreshold(score) == score >= OwwThreshold

\* if score > 0.5, scores in hundredths
Spotted(score) == score > OwwThreshold

\* an openWakeWord branch that runs the spotter before the mute check
ListenOwwSpotsFirst(held, muted, score, fault, heard) ==
    IF ~held THEN Raise("read") @@ [calls |-> << >>]
    ELSE IF fault = "spotter"
    THEN Raise("spotter") @@ [calls |-> << "read_bytes", "predict" >>]
    ELSE IF muted
    THEN Return(FALSE, NoCommand, "none")
             @@ [calls |-> << "read_bytes", "predict", "check_and_update_mute_status" >>]
    ELSE Return(FALSE, NoCommand, "none")
             @@ [calls |-> << "read_bytes", "predict", "check_and_update_mute_status" >>]

\* the openWakeWord branch: read_bytes on the stream held (AttributeError when the
\* assistant holds none), mute check, predict, and on a score above the threshold
\* reset, _record_audio and _transcribe
ListenOww(held, muted, score, fault, heard) ==
    LET frame == << "read_bytes", "check_and_update_mute_status" >>
        window == frame \o << "predict", "reset", "_record_audio", "_transcribe" >>
    IN IF ~held THEN Raise("read") @@ [calls |-> << >>]
       ELSE IF muted THEN Return(FALSE, NoCommand, "none") @@ [calls |-> frame]
       ELSE IF fault = "spotter"
       THEN Raise("spotter") @@ [calls |-> frame \o << "predict" >>]
       ELSE IF ~Spotted(score)
       THEN Return(FALSE, NoCommand, "none") @@ [calls |-> frame \o << "predict" >>]
       ELSE IF fault = "transcribe" THEN Raise("transcribe") @@ [calls |-> window]
       ELSE IF heard # << >>
       THEN Return(TRUE, Command(strip(lower(heard))), "none") @@ [calls |-> window]
       ELSE Return(TRUE, NoCommand, "none") @@ [calls |-> window]

\* a Whisper branch without the amplitude gate
ListenFallbackNoGate(held, amp, muted, fault, heard) ==
    LET what == IF held THEN "none" ELSE "read"
        window == << "_record_audio", "check_and_update_mute_status" >>
    IN IF muted THEN Return(FALSE, NoCommand, what) @@ [calls |-> window]
       ELSE IF fault = "transcribe"
       THEN Raise("transcribe") @@ [calls |-> window \o << "_transcribe" >>]
       ELSE Return(FALSE, NoCommand, what) @@ [calls |-> window \o << "_transcribe" >>]

\* the Whisper branch: _record_audio (raw_bytes is b'' when its read failed), the
\* mute check, the amplitude gate, _transcribe and the match
ListenFallback(held, amp, muted, fault, heard) ==
    LET what == IF held THEN "none" ELSE "read"
        window == << "_record_audio", "check_and_update_mute_status" >>
        heard_it == [calls |-> window \o << "_transcribe" >>]
    IN IF muted THEN Return(FALSE, NoCommand, what) @@ [calls |-> window]
       ELSE IF amp < LowSignal THEN Return(FALSE, NoCommand, what) @@ [calls |-> window]
       ELSE IF fault = "transcribe" THEN Raise("transcribe") @@ heard_it
       ELSE IF heard = << >> THEN Return(FALSE, NoCommand, what) @@ heard_it
       ELSE LET m == WakeMatch(wake_word, heard)
            IN IF m.caught THEN Raise("split") @@ heard_it
               ELSE Return(m.detected, m.trailing, what) @@ heard_it

\* an except clause that lets the exception through
ExceptClauseReraises(r) == r

\* except Exception as e: print(...); return False, None
ExceptClause(r) ==
    IF r.pc = "raised" THEN [r EXCEPT !.pc = "returned", !.caught = TRUE] ELSE r

\* one call of listen_for_wake_word.  data is what the stream returns to the read of
\* this cycle when the assistant holds a stream, data_amp its get_audio_amplitude.
ListenForWakeWord(data, data_amp, score, fault, heard) ==
    /\ mpc = "idle"
    /\ LET held == _audio_stream # None
           raw_bytes == IF held THEN data ELSE << >>
           amp == IF held THEN data_amp ELSE get_audio_amplitude(<< >>)
           checked == _oww_model = NoModel \/ held
           muted == MuteEvalAmp(_hardware_profile, _last_mute_state, _mute_counter, amp).ret
           r == ExceptClause(IF _oww_model # NoModel
                             THEN ListenOww(held, muted, score, fault, heard)
                             ELSE ListenFallback(held, amp, muted, fault, heard))
       IN /\ IF checked THEN MuteUpdateAmp(raw_bytes, amp) ELSE UNCHANGED muteVars
          /\ wake' = [pc |-> r.pc, detected |-> r.detected, trailing |-> r.trailing,
                      caught |-> r.caught]
          /\ failed' = r.failed
          /\ cycle' = [calls |-> r.calls, score |-> score]
    /\ text' = heard
    /\ UNCHANGED << streamVars, procVars, readerVars, callerVars, histVars, asstVars,
                    probeVars, wake_word, _oww_model, identVars >>

\* ------------------------------------------------------------------------
\* hardware_profiles.py: device identity and profile selection
\* ------------------------------------------------------------------------
\* _parse_card_index returning None
NoCard == -1

StartsWith(str, prefix) ==
    Len(prefix) <= Len(str) /\ SubSeq(str, 1, Len(prefix)) = prefix

Drop(str, n) == SubSeq(str, n + 1, Len(str))

DigitSeq == << "0", "1", "2", "3", "4", "5", "6", "7", "8", "9" >>

\* the longest prefix of digits: what \d+ takes
RECURSIVE LeadingDigits(_)
LeadingDigits(str) ==
    IF str # << >> /\ Head(str) \in Digits
    THEN << Head(str) >> \o LeadingDigits(Tail(str)) ELSE << >>

\* int(digits)
RECURSIVE ToInt(_)
ToInt(digits) ==
    IF digits = << >> THEN 0
    ELSE 10 * ToInt(SubSeq(digits, 1, Len(digits) - 1)) + (CHOOSE k \in 0 .. 9 : DigitSeq[k + 1] = digits[Len(digits)])

\* str(n) for a card index
RECURSIVE ToStr(_)
ToStr(n) == IF n < 10 THEN << DigitSeq[n + 1] >> ELSE ToStr(n \div 10) \o << DigitSeq[(n % 10) + 1] >>

S ==
    [ plug |-> << "p", "l", "u", "g" >>,
      hw |-> << "h", "w", ":" >>,
      jabra |-> << "j", "a", "b", "r", "a" >>,
      speak |-> << "s", "p", "e", "a", "k" >>,
      anker |-> << "a", "n", "k", "e", "r" >>,
      powerconf |-> << "p", "o", "w", "e", "r", "c", "o", "n", "f" >>,
      s330 |-> << "s", "3", "3", "0" >> ]

\* re.match(r"^(?:plug)?hw:(\d+)(?:,\d+)?$", (device_id or "").strip())
_parse_card_index(device_id) ==
    LET stripped == strip(device_id)
        t == IF StartsWith(stripped, S.plug) THEN Drop(stripped, Len(S.plug)) ELSE stripped
    IN IF ~StartsWith(t, S.hw) THEN NoCard
       ELSE LET u == Drop(t, Len(S.hw))
                card == LeadingDigits(u)
                rest == Drop(u, Len(card))
            IN IF card = << >> THEN NoCard
               ELSE IF rest = << >> THEN ToInt(card)
               ELSE IF /\ Head(rest) = ","
                       /\ Tail(rest) # << >>
                       /\ LeadingDigits(Tail(rest)) = Tail(rest)
               THEN ToInt(card)
               ELSE NoCard

\* a file: unreadable (missing, no permission) or readable with its content
Unreadable == [ok |-> FALSE, content |-> << >>]

File(content) == [ok |-> TRUE, content |-> content]

\* a read that hands the failure on instead of ''
ReadTextUnguarded(file) == IF file.ok THEN strip(file.content) ELSE << "?" >>

\* _read_text(path)
_read_text(file) == IF file.ok THEN strip(file.content) ELSE << >>

\* re.match(rf"^\s*{idx}\s*\[(.*?)\]", line): the text between the brackets, or
\* no match
CardLineMatch(idx, line) ==
    LET a == lstrip(line)
        b == IF StartsWith(a, ToStr(idx)) THEN lstrip(Drop(a, Len(ToStr(idx)))) ELSE << >>
    IN IF b # << >> /\ Head(b) = "[" /\ Contains(<< "]" >>, Tail(b))
       THEN [matched |-> TRUE, name |-> SubSeq(Tail(b), 1, Find(<< "]" >>, Tail(b)))]
       ELSE [matched |-> FALSE, name |-> << >>]

\* the loop over content.splitlines(): the name of the first matching line
RECURSIVE CardName(_, _)
CardName(idx, lines) ==
    IF lines = << >> THEN << >>
    ELSE IF CardLineMatch(idx, Head(lines)).matched
         THEN strip(CardLineMatch(idx, Head(lines)).name)
         ELSE CardName(idx, Tail(lines))

\* the dictionary get_device_identity starts from
EmptyIdentity(device_id, idx) ==
    [device_id |-> device_id, card_index |-> idx, alsa_card_name |-> << >>,
     usb_manufacturer |-> << >>, usb_product |-> << >>,
     usb_vendor_id |-> << >>, usb_product_id |-> << >>]

\* get_device_identity(device_id) with the files it finds; cards.content is the
\* list of lines of /proc/asound/cards
get_device_identity(device_id, cards, sys) ==
    LET idx == _parse_card_index(device_id)
    IN IF idx = NoCard THEN EmptyIdentity(device_id, idx)
       ELSE [device_id |-> device_id,
             card_index |-> idx,
             alsa_card_name |-> IF cards.ok THEN CardName(idx, cards.content) ELSE << >>,
             usb_manufacturer |-> _read_text(sys.manufacturer),
             usb_product |-> _read_text(sys.product),
             usb_vendor_id |-> _read_text(sys.idVendor),
             usb_product_id |-> _read_text(sys.idProduct)]

\* a blob that keeps the letter case of the identity
BlobCaseSensitive(id) ==
    id.alsa_card_name \o << " " >> \o id.usb_manufacturer \o << " " >> \o id.usb_product

\* " ".join([card name, manufacturer, product]).lower()
Blob(id) ==
    lower(id.alsa_card_name \o << " " >> \o id.usb_manufacturer \o << " " >> \o id.usb_product)

\* get_hardware_profile, from the identity on
get_hardware_profile(id) ==
    LET blob == Blob(id)
    IN IF Contains(S.jabra, blob) /\ Contains(S.speak, blob) THEN JabraSpeak
       ELSE IF /\ Contains(S.anker, blob)
               /\ (Contains(S.powerconf, blob) \/ Contains(S.s330, blob))
       THEN AnkerPowerConf
       ELSE DefaultProfile

\* identifiers, lines of /proc/asound/cards and sysfs file contents
Ids ==
    [ d_hw20 |-> << "h", "w", ":", "2", ",", "0" >>,
      d_plughw20 |-> << "p", "l", "u", "g", "h", "w", ":", "2", ",", "0" >>,
      d_hw2 |-> << "h", "w", ":", "2" >>,
      d_hw12sp |-> << " ", "h", "w", ":", "1", "2", ",", "0", " " >>,
      d_default |-> << "d", "e", "f", "a", "u", "l", "t" >>,
      d_hwname |-> << "h", "w", ":", "S", "3", "3", "0", ",", "0" >>,
      d_empty |-> << >> ]
Meta ==
    [ line_tegra |-> << " ", "0", " ", "[", "t", "e", "g", "r", "a", "h", "d", "a", " ", " ", " ", " ", " ", " ", " ", "]", ":", " ", "t", "e", "g", "r", "a", "-", "h", "d", "a" >>,
      line_s330 |-> << " ", "2", " ", "[", "S", "3", "3", "0", " ", " ", " ", " ", " ", " ", " ", " ", " ", " ", " ", "]", ":", " ", "U", "S", "B", "-", "A", "u", "d", "i", "o" >>,
      line_usb |-> << " ", "2", " ", "[", "U", "S", "B", " ", " ", " ", " ", " ", " ", " ", " ", " ", " ", " ", " ", "]", ":", " ", "U", "S", "B", "-", "A", "u", "d", "i", "o" >>,
      line_cont |-> << " ", " ", " ", " ", " ", " ", " ", " ", " ", " ", " ", " ", " ", " ", " ", " ", " ", " ", " ", " ", " ", " ", "J", "a", "b", "r", "a", " ", "S", "P", "E", "A", "K", " ", "4", "1", "0", " ", "U", "S", "B", " ", "a", "t", " ", "u", "s", "b" >>,
      line_12speak |-> << "1", "2", " ", "[", "S", "p", "e", "a", "k", " ", " ", " ", " ", " ", " ", " ", " ", " ", " ", "]", ":", " ", "U", "S", "B", "-", "A", "u", "d", "i", "o" >>,
      manufacturer_jabra |-> << "J", "a", "b", "r", "a", "\n" >>,
      manufacturer_jabraup |-> << "J", "A", "B", "R", "A", "\n" >>,
      manufacturer_anker |-> << "A", "n", "k", "e", "r", "\n" >>,
      manufacturer_generic |-> << "G", "e", "n", "e", "r", "i", "c", "\n" >>,
      product_speak |-> << "S", "P", "E", "A", "K", " ", "4", "1", "0", " ", "U", "S", "B", "\n" >>,
      product_speaklow |-> << "s", "p", "e", "a", "k", "\n" >>,
      product_powerconf |-> << "P", "o", "w", "e", "r", "C", "o", "n", "f", " ", "S", "3", "3", "0", "\n" >>,
      product_usbaudio |-> << "U", "S", "B", " ", "A", "u", "d", "i", "o", "\n" >>,
      id_0b0e |-> << "0", "b", "0", "e", "\n" >> ]

\* ------------------------------------------------------------------------
\* settings_store.py, history_store.py and the processes that share their files
\* ------------------------------------------------------------------------
\* the keys followed here: one of the general form, the LLM keys
DEFAULT_SETTINGS ==
    [wake_word |-> W.jetson, llm_provider |-> "openai", llm_model |-> "gpt-4o-mini"]

\* settings_store.load_settings: the defaults, updated with the file's keys; the
\* defaults alone when the file cannot be parsed
load_settings(file) == IF file.ok THEN file.json @@ DEFAULT_SETTINGS ELSE DEFAULT_SETTINGS

\* settings_store.save_settings: merged = dict(DEFAULT_SETTINGS); merged.update(new_settings)
save_settings(new_settings) == new_settings @@ DEFAULT_SETTINGS

\* POST /settings: current = load_settings(), new_settings from the form,
\* save_settings (open(path, "w") truncates, json.dump writes), then the signal file
save_settings_route(form) ==
    /\ \/ /\ portal.pc = "idle"
          /\ done.saves < MaxSaves
          /\ LET current == load_settings(settings_file)
                 new_settings == [wake_word |-> IF form.wake_word # << >> THEN form.wake_word
                                                ELSE current.wake_word]
             IN portal' = [pc |-> "dump", route |-> "settings", current |-> current,
                           merged |-> save_settings(new_settings)]
          /\ settings_file' = [settings_file EXCEPT !.ok = FALSE]
          /\ UNCHANGED << reload_signal, done >>
       \/ /\ portal.pc = "dump" /\ portal.route = "settings"
          /\ settings_file' = [json |-> portal.merged, ok |-> TRUE, rev |-> done.saves + 1]
          /\ portal' = [portal EXCEPT !.pc = "signal"]
          /\ UNCHANGED << reload_signal, done >>
       \/ /\ portal.pc = "signal" /\ portal.route = "settings"
          /\ reload_signal' = TRUE
          /\ done' = [done EXCEPT !.saves = @ + 1]
          /\ portal' = [portal EXCEPT !.pc = "idle"]
          /\ UNCHANGED settings_file
    /\ UNCHANGED << callerVars, wakeVars, history_file, rq, loaded >>
    /\ UNCHANGED << streamVars, procVars, readerVars, histVars, muteVars, asstVars,
                    probeVars, audio_device, audio_channels, audio_sample_rate,
                    proc_asound_cards, sysfs, ident >>

\* POST /llm: current = load_settings() with the three LLM keys replaced, saved whole
save_llm_settings(form) ==
    /\ \/ /\ portal.pc = "idle"
          /\ done.saves < MaxSaves
          /\ LET current == load_settings(settings_file)
                 model == IF form.llm_provider = "openai" THEN form.openai_model
                          ELSE form.ollama_model
             IN portal' = [pc |-> "dump", route |-> "llm", current |-> current,
                           merged |-> save_settings(
                               [current EXCEPT !.llm_provider = form.llm_provider,
                                               !.llm_model = model])]
          /\ settings_file' = [settings_file EXCEPT !.ok = FALSE]
          /\ UNCHANGED << reload_signal, done >>
       \/ /\ portal.pc = "dump" /\ portal.route = "llm"
          /\ settings_file' = [json |-> portal.merged, ok |-> TRUE, rev |-> done.saves + 1]
          /\ portal' = [portal EXCEPT !.pc = "signal"]
          /\ UNCHANGED << reload_signal, done >>
       \/ /\ portal.pc = "signal" /\ portal.route = "llm"
          /\ reload_signal' = TRUE
          /\ done' = [done EXCEPT !.saves = @ + 1]
          /\ portal' = [portal EXCEPT !.pc = "idle"]
          /\ UNCHANGED settings_file
    /\ UNCHANGED << callerVars, wakeVars, history_file, rq, loaded >>
    /\ UNCHANGED << streamVars, procVars, readerVars, histVars, muteVars, asstVars,
                    probeVars, audio_device, audio_channels, audio_sample_rate,
                    proc_asound_cards, sysfs, ident >>

\* a reload that loads the settings before it removes the signal
CheckReloadLoadsFirst ==
    /\ \/ /\ mpc = "idle"
          /\ reload_signal
          /\ wake_word' = load_settings(settings_file).wake_word
          /\ loaded' = IF settings_file.ok THEN settings_file.rev ELSE 0
          /\ mpc' = "reload"
          /\ UNCHANGED reload_signal
       \/ /\ mpc = "reload"
          /\ reload_signal' = FALSE
          /\ mpc' = "idle"
          /\ UNCHANGED << wake_word, loaded >>
    /\ UNCHANGED << m_kind, bytes_needed, elapsed, result, retKind, text, wake, _oww_model,
                    failed, cycle, settings_file, history_file, portal, rq, done >>
    /\ UNCHANGED << streamVars, procVars, readerVars, histVars, muteVars, asstVars,
                    probeVars, audio_device, audio_channels, audio_sample_rate,
                    proc_asound_cards, sysfs, ident >>

\* check_reload with the signal file present: os.unlink, then _load_settings()
check_reload ==
    /\ \/ /\ mpc = "idle"
          /\ reload_signal
          /\ reload_signal' = FALSE
          /\ mpc' = "reload"
          /\ UNCHANGED << wake_word, loaded >>
       \/ /\ mpc = "reload"
          /\ wake_word' = load_settings(settings_file).wake_word
          /\ loaded' = IF settings_file.ok THEN settings_file.rev ELSE 0
          /\ mpc' = "idle"
          /\ UNCHANGED reload_signal
    /\ UNCHANGED << m_kind, bytes_needed, elapsed, result, retKind, text, wake, _oww_model,
                    failed, cycle, settings_file, history_file, portal, rq, done >>
    /\ UNCHANGED << streamVars, procVars, readerVars, histVars, muteVars, asstVars,
                    probeVars, audio_device, audio_channels, audio_sample_rate,
                    proc_asound_cards, sysfs, ident >>

\* history_store.record_query in the assistant process: _load_history, append,
\* _save_history, under the assistant's own _lock
record_query ==
    /\ \/ /\ mpc = "idle"
          /\ done.queries < MaxRecords
          /\ rq' = history_file
          /\ mpc' = "record_query"
          /\ UNCHANGED << history_file, done >>
       \/ /\ mpc = "record_query"
          /\ history_file' = [rq EXCEPT !.queries = Append(@, done.queries + 1)]
          /\ done' = [done EXCEPT !.queries = @ + 1]
          /\ mpc' = "idle"
          /\ UNCHANGED rq
    /\ UNCHANGED << m_kind, bytes_needed, elapsed, result, retKind, wakeVars,
                    settings_file, reload_signal, portal, loaded >>
    /\ UNCHANGED << streamVars, procVars, readerVars, histVars, muteVars, asstVars,
                    probeVars, audio_device, audio_channels, audio_sample_rate,
                    proc_asound_cards, sysfs, ident >>

\* history_store.record_stats in the portal process (GET /api/stats), under the
\* portal's own _lock
record_stats ==
    /\ \/ /\ portal.pc = "idle"
          /\ done.stats < MaxRecords
          /\ portal' = [pc |-> "save_history", route |-> "stats", current |-> history_file]
          /\ UNCHANGED << history_file, done >>
       \/ /\ portal.pc = "save_history"
          /\ history_file' = [portal.current EXCEPT !.stats = Append(@, done.stats + 1)]
          /\ done' = [done EXCEPT !.stats = @ + 1]
          /\ portal' = [portal EXCEPT !.pc = "idle"]
    /\ UNCHANGED << callerVars, wakeVars, settings_file, reload_signal, rq, loaded >>
    /\ UNCHANGED << streamVars, procVars, readerVars, histVars, muteVars, asstVars,
                    probeVars, audio_device, audio_channels, audio_sample_rate,
                    proc_asound_cards, sysfs, ident >>

\* history_store.clear_query_history in the portal process (POST /history/clear)
clear_query_history ==
    /\ \/ /\ portal.pc = "idle"
          /\ done.clears < MaxClears
          /\ portal' = [pc |-> "clear_history", route |-> "clear", current |-> history_file]
          /\ UNCHANGED << history_file, done >>
       \/ /\ portal.pc = "clear_history"
          /\ history_file' = [portal.current EXCEPT !.queries = << >>]
          /\ done' = [done EXCEPT !.clears = @ + 1]
          /\ portal' = [portal EXCEPT !.pc = "idle"]
    /\ UNCHANGED << callerVars, wakeVars, settings_file, reload_signal, rq, loaded >>
    /\ UNCHANGED << streamVars, procVars, readerVars, histVars, muteVars, asstVars,
                    probeVars, audio_device, audio_channels, audio_sample_rate,
                    proc_asound_cards, sysfs, ident >>

NoIdentityRead ==
    /\ audio_device = Ids.d_hw20
    /\ audio_channels = 1
    /\ audio_sample_rate = _capture_sample_rate
    /\ proc_asound_cards = Unreadable
    /\ sysfs = [manufacturer |-> Unreadable, product |-> Unreadable,
                idVendor |-> Unreadable, idProduct |-> Unreadable]
    /\ ident = EmptyIdentity(audio_device, NoCard)
    /\ settings_file = [json |-> DEFAULT_SETTINGS, ok |-> TRUE, rev |-> 0]
    /\ reload_signal = FALSE
    /\ history_file = [stats |-> << >>, queries |-> << >>]
    /\ portal = [pc |-> "idle", route |-> "none"]
    /\ rq = [stats |-> << >>, queries |-> << >>]
    /\ loaded = 0
    /\ done = [saves |-> 0, stats |-> 0, queries |-> 0, clears |-> 0]

\* get_hardware_profile(self.audio_device), first half: ident = get_device_identity(...)
GetDeviceIdentity ==
    /\ mpc = "init"
    /\ ident' = get_device_identity(audio_device, proc_asound_cards, sysfs)
    /\ mpc' = "identified"
    /\ UNCHANGED << streamVars, procVars, readerVars, m_kind, bytes_needed, elapsed, result,
                    retKind, histVars, muteVars, asstVars, probeVars, wakeVars,
                    audio_device, audio_channels, audio_sample_rate, proc_asound_cards, sysfs,
                    storeVars >>

\* ... second half: self._hardware_profile = the profile chosen from the identity
GetHardwareProfile ==
    /\ mpc = "identified"
    /\ _hardware_profile' = get_hardware_profile(ident)
    /\ mpc' = "profiled"
    /\ UNCHANGED << streamVars, procVars, readerVars, m_kind, bytes_needed, elapsed, result,
                    retKind, histVars, _last_mute_state, _mute_counter, mute_state_file, now,
                    evalData, evalAmp, evalPrev, evalBefore, evalRet, zeroRun,
                    asstVars, probeVars, wakeVars, identVars >>

\* self._capture_device = self._hardware_profile.preferred_capture_device
\* or self.audio_device: the attribute is read from the profile; a profile without
\* it raises AttributeError, which nothing in __init__ or main() catches
CaptureDeviceOverride ==
    /\ mpc = "profiled"
    /\ mpc' = IF "preferred_capture_device" \in DOMAIN _hardware_profile
              THEN "probe"
              ELSE "AttributeError"
    /\ UNCHANGED << streamVars, procVars, readerVars, m_kind, bytes_needed, elapsed, result,
                    retKind, histVars, muteVars, asstVars, pureVars >>

\* ------------------------------------------------------------------------
\* Specifications
\* ------------------------------------------------------------------------
vars == << streamVars, procVars, readerVars, callerVars, histVars, muteVars, asstVars, pureVars >>

\* the state after VoiceAssistant.__init__ chose profile and channel count and
\* constructed (and so started) the capture stream
Constructed(profile, ch) ==
    /\ _hardware_profile = profile
    /\ device = _audio_stream_device
    /\ sample_rate = _capture_sample_rate
    /\ channels = ch
    /\ _running = TRUE
    /\ spawned = 1
    /\ procs = [p \in 1 .. MaxSpawns |->
                   IF p = 1 THEN Popen(device, sample_rate, channels) ELSE NoProc]
    /\ _process = 1
    /\ _buffer = << >>
    /\ _buffer_lock = Free
    /\ rpc = [t \in Threads |-> IF t = 1 THEN "loop" ELSE "unborn"]
    /\ rdata = [t \in Threads |-> << >>]
    /\ nextId = 1
    /\ produced = 0
    /\ readErrors = 0
    /\ mpc = "idle"
    /\ m_kind = "none"
    /\ bytes_needed = 0
    /\ elapsed = 0
    /\ result = << >>
    /\ retKind = "none"
    /\ delivered = 0
    /\ appended = 0
    /\ capDropped = FALSE
    /\ _last_mute_state = FALSE
    /\ _mute_counter = 0
    /\ mute_state_file = [written |-> FALSE, is_muted |-> FALSE, timestamp |-> 0]
    /\ now = 0
    /\ evalData = << >>
    /\ evalAmp = -1
    /\ evalPrev = -1
    /\ evalBefore = FALSE
    /\ evalRet = FALSE
    /\ zeroRun = 0
    /\ _audio_stream = 1
    /\ _audio_stream_channels = channels
    /\ play_device = "default"
    /\ playback = "none"
    /\ stoppedStream = NoStream
    /\ probe = NoProbe
    /\ arecord = [c \in ChannelCounts |-> "ok"]

\* preferred_channels = profile.prefer_capture_channels or self.audio_channels
PreferredChannels(profile) ==
    IF profile.prefer_capture_channels # None THEN profile.prefer_capture_channels ELSE 1

Init == NotListening /\ NoIdentityRead /\ \E ch \in {1, 2} : Constructed(DefaultProfile, ch)

ReaderStep(t) ==
    \/ ReaderLoop(t)
    \/ ReaderReadEOF(t, StreamSamples)
    \/ ReaderLock(t)
    \/ ReaderAppend(t)
    \/ ReaderAfter(t)
    \/ StartFlag(t)
    \/ StartPopen(t)

ReadStep == ReadLock \/ ReadPoll \/ ReadSleep \/ ReadTimeout

StopStep == StopTerminate \/ StopWaitExited \/ StopWaitKill

\* the capture stream, its reader threads and one caller
Next ==
    \/ \E t \in Threads : ReaderStep(t)
    \/ \E t \in Threads : ReaderReadChunk(t, StreamSamples)
    \/ \E p \in 1 .. MaxSpawns : ProcExit(p)
    \/ ReadSecondsCall
    \/ ReadBytesCall
    \/ ReadStep
    \/ StopFlag
    \/ StopStep

Spec == Init /\ [][Next]_vars

\* the threads are scheduled, a thread waiting for the lock gets it, and a call in
\* progress goes on; nothing obliges the device to deliver data, a process to exit
\* or the caller to make a call
FairSpec ==
    /\ Spec
    /\ WF_vars(\E t \in Threads : ReaderStep(t))
    /\ SF_vars(\E t \in Threads : ReaderLock(t))
    /\ WF_vars(ReadStep) /\ SF_vars(ReadLock)
    /\ WF_vars(StopStep)

\* a stream that has captured for 9.9 seconds without a read: one chunk below the cap
BacklogInit ==
    /\ NotListening
    /\ NoIdentityRead
    /\ _hardware_profile = DefaultProfile
    /\ device = _audio_stream_device
    /\ sample_rate = _capture_sample_rate
    /\ channels = 1
    /\ _running = TRUE
    /\ spawned = 1
    /\ procs = [p \in 1 .. MaxSpawns |->
                   IF p = 1 THEN Popen(device, sample_rate, channels) ELSE NoProc]
    /\ _process = 1
    /\ _buffer = [i \in 1 .. (max_chunks - 1) |-> << Run((i - 1) * chunk_size + 1, chunk_size, 300, 0) >>]
    /\ _buffer_lock = Free
    /\ rpc = [t \in Threads |-> IF t = 1 THEN "loop" ELSE "unborn"]
    /\ rdata = [t \in Threads |-> << >>]
    /\ nextId = (max_chunks - 1) * chunk_size + 1
    /\ produced = 0
    /\ readErrors = 0
    /\ mpc = "idle"
    /\ m_kind = "none"
    /\ bytes_needed = 0
    /\ elapsed = 0
    /\ result = << >>
    /\ retKind = "none"
    /\ delivered = 0
    /\ appended = (max_chunks - 1) * chunk_size
    /\ capDropped = FALSE
    /\ _last_mute_state = FALSE
    /\ _mute_counter = 0
    /\ mute_state_file = [written |-> FALSE, is_muted |-> FALSE, timestamp |-> 0]
    /\ now = 0
    /\ evalData = << >>
    /\ evalAmp = -1
    /\ evalPrev = -1
    /\ evalBefore = FALSE
    /\ evalRet = FALSE
    /\ zeroRun = 0
    /\ _audio_stream = 1
    /\ _audio_stream_channels = channels
    /\ play_device = "default"
    /\ playback = "none"
    /\ stoppedStream = NoStream
    /\ probe = NoProbe
    /\ arecord = [c \in ChannelCounts |-> "ok"]

\* the reader thread of a live process and a caller reading frames
BacklogNext ==
    \/ \E t \in Threads : ReaderLoop(t)
    \/ \E t \in Threads : ReaderReadChunk(t, StreamSamples)
    \/ \E t \in Threads : ReaderLock(t)
    \/ \E t \in Threads : ReaderAppend(t)
    \/ ReadSecondsCall
    \/ ReadCall("read_seconds", (10100 * bytes_per_second) \div 1000)   \* duration 10.1
    \/ ReadBytesCall
    \/ ReadStep

BacklogSpec == BacklogInit /\ [][BacklogNext]_vars

\* the assistant speaking while its capture stream runs
SpeakSpec ==
    Init /\ [][\/ \E t \in Threads : ReaderStep(t)
               \/ \E t \in Threads : ReaderReadChunk(t, StreamSamples)
               \/ \E p \in 1 .. MaxSpawns : ProcExit(p)
               \/ \E dev \in {"default", "plughw:2,0"} : SpeakCall(dev)
               \/ StopStep
               \/ \E outcome \in {"ok", "failed", "raised"} : Playback(outcome)
               \/ SpeakStep]_vars

\* VoiceAssistant.__init__ before the capture stream exists: settings and profile
\* are loaded, no stream object, no process, no thread
Unconstructed(profile) ==
    /\ _hardware_profile = profile
    /\ device = ""
    /\ sample_rate = 0
    /\ channels = 0
    /\ _running = FALSE
    /\ spawned = 0
    /\ procs = [p \in 1 .. MaxSpawns |-> NoProc]
    /\ _process = None
    /\ _buffer = << >>
    /\ _buffer_lock = Free
    /\ rpc = [t \in Threads |-> "unborn"]
    /\ rdata = [t \in Threads |-> << >>]
    /\ nextId = 1
    /\ produced = 0
    /\ readErrors = 0
    /\ mpc = "init"
    /\ m_kind = "none"
    /\ bytes_needed = 0
    /\ elapsed = 0
    /\ result = << >>
    /\ retKind = "none"
    /\ delivered = 0
    /\ appended = 0
    /\ capDropped = FALSE
    /\ _last_mute_state = FALSE
    /\ _mute_counter = 0
    /\ mute_state_file = [written |-> FALSE, is_muted |-> FALSE, timestamp |-> 0]
    /\ now = 0
    /\ evalData = << >>
    /\ evalAmp = -1
    /\ evalPrev = -1
    /\ evalBefore = FALSE
    /\ evalRet = FALSE
    /\ zeroRun = 0
    /\ _audio_stream = None
    /\ _audio_stream_channels = None
    /\ play_device = "default"
    /\ playback = "none"
    /\ stoppedStream = NoStream

\* the probe called with every preferred count on every kind of device
ProbeInit ==
    /\ NotListening
    /\ NoIdentityRead
    /\ Unconstructed(DefaultProfile)
    /\ \E preferred \in ChannelCounts : probe = ProbeCalled(preferred)
    /\ arecord \in [ChannelCounts -> {"ok", "unsupported", "error", "raised"}]

ProbeNext == ProbeTry \/ ProbeFallback

ProbeSpec == ProbeInit /\ [][ProbeNext]_vars

\* the fallback match applied to every transcript under every wake phrase
WakeInit ==
    /\ Constructed(DefaultProfile, 1)
    /\ NoIdentityRead
    /\ wake_word \in { W.jetson, W.computer, << >>, T.bang }
    /\ text \in { t \in TranscriptsUpTo(MaxTokens) : t # << >> /\ strip(t) = t }
    /\ wake = [pc |-> "heard", detected |-> FALSE, trailing |-> NoCommand, caught |-> FALSE]
    /\ _oww_model = NoModel
    /\ failed = "none"
    /\ cycle = [calls |-> << >>, score |-> 0]

WakeSpec == WakeInit /\ [][WakeMatchStep]_vars

\* the assistant after a speak() whose restart of the capture stream failed:
\* the stream is stopped, its process dead, and no stream is held
StreamLost(profile, ch) ==
    /\ _hardware_profile = profile
    /\ device = _audio_stream_device
    /\ sample_rate = _capture_sample_rate
    /\ channels = ch
    /\ _running = FALSE
    /\ spawned = 1
    /\ procs = [p \in 1 .. MaxSpawns |->
                   IF p = 1 THEN [Popen(device, sample_rate, channels) EXCEPT !.state = "dead"]
                   ELSE NoProc]
    /\ _process = 1
    /\ _buffer = << >>
    /\ _buffer_lock = Free
    /\ rpc = [t \in Threads |-> IF t = 1 THEN "done" ELSE "unborn"]
    /\ rdata = [t \in Threads |-> << >>]
    /\ nextId = 1
    /\ produced = 0
    /\ readErrors = 0
    /\ mpc = "idle"
    /\ m_kind = "none"
    /\ bytes_needed = 0
    /\ elapsed = 0
    /\ result = << >>
    /\ retKind = "none"
    /\ delivered = 0
    /\ appended = 0
    /\ capDropped = FALSE
    /\ _last_mute_state = FALSE
    /\ _mute_counter = 0
    /\ mute_state_file = [written |-> FALSE, is_muted |-> FALSE, timestamp |-> 0]
    /\ now = 0
    /\ evalData = << >>
    /\ evalAmp = -1
    /\ evalPrev = -1
    /\ evalBefore = FALSE
    /\ evalRet = FALSE
    /\ zeroRun = 0
    /\ _audio_stream = None
    /\ _audio_stream_channels = ch
    /\ play_device = "plughw:2,0"
    /\ playback = "ok"
    /\ stoppedStream = [device |-> device, sample_rate |-> sample_rate, channels |-> ch]
    /\ probe = NoProbe
    /\ arecord = [c \in ChannelCounts |-> "ok"]

\* listening with or without the spotter, with a stream or after losing it, on a
\* device with or without mute detection
ListenInit ==
    /\ NoIdentityRead
    /\ \E profile \in {JabraSpeak, DefaultProfile} :
          Constructed(profile, 1) \/ StreamLost(profile, 1)
    /\ wake_word \in {W.jetson, << >>}
    /\ text = << >>
    /\ wake = [pc |-> "none", detected |-> FALSE, trailing |-> NoCommand, caught |-> FALSE]
    /\ _oww_model \in {NoModel, "hey_jarvis"}
    /\ failed = "none"
    /\ cycle = [calls |-> << >>, score |-> 0]

\* what the stream returns to the read of a cycle, with its get_audio_amplitude
ListenAudio ==
    { [data |-> d, amp |-> get_audio_amplitude(d)] :
         d \in { Zeros(2560), << Run(1, 2560, 300, 0) >>, << Run(1, 2560, 29, 0) >>,
                 << Run(1, 2000, 0, 0), Run(2001, 560, 300, 0) >> } }

ListenNext ==
    \E audio \in ListenAudio :
       LET \* the spotter runs, and can fail, only when its model is loaded
           scores == IF _oww_model # NoModel THEN {OwwThreshold, OwwThreshold + 1} ELSE {0}
           faults == IF _oww_model # NoModel THEN {"none", "spotter", "transcribe"}
                     ELSE {"none", "transcribe"}
       IN \E score \in scores, fault \in faults,
             heard \in { << >>, T.good_morning,
                         T.hey \o T.jetson \o T.what_time_is_it,
                         T.Jetson \o T.what_time_is_it } :
             ListenForWakeWord(audio.data, audio.amp, score, fault, heard)

ListenSpec == ListenInit /\ [][ListenNext]_vars

\* the main loop: check_reload, then a cycle of listen_for_wake_word, with the
\* speak() of a reload that changes the wake word
ReloadNext ==
    \/ \E settings \in
             { [wake_word |-> wake_word, audio_input_device |-> Ids.d_hw20,
                audio_channels |-> 1, audio_sample_rate |-> _capture_sample_rate],
               [wake_word |-> wake_word, audio_input_device |-> Ids.d_plughw20,
                audio_channels |-> 2, audio_sample_rate |-> 3 * _capture_sample_rate],
               [wake_word |-> W.computer, audio_input_device |-> Ids.d_plughw20,
                audio_channels |-> 2, audio_sample_rate |-> 3 * _capture_sample_rate] },
          dev \in {"default", "plughw:2,0"} :
          CheckReload(settings, dev)
    \/ \E audio \in ListenAudio :
          ListenForWakeWord(audio.data, audio.amp, OwwThreshold + 1, "none",
                            T.hey \o T.jetson \o T.what_time_is_it)
    \/ \E p \in 1 .. MaxSpawns : ProcExit(p)
    \/ StopTerminate         \* the capture process exits within the wait of stop()
    \/ StopWaitExited
    \/ \E outcome \in {"ok", "failed", "raised"} : Playback(outcome)
    \/ SpeakStep

ReloadSpec == ListenInit /\ [][ReloadNext]_vars

\* the portal process saving settings and the assistant's main loop reloading them
StoreNext ==
    \/ \E w \in {W.computer, << >>} : save_settings_route([wake_word |-> w])
    \/ \E provider \in {"openai", "ollama"} :
          save_llm_settings([llm_provider |-> provider, openai_model |-> "gpt-4o",
                             ollama_model |-> "llama3.2:1b"])
    \/ check_reload

StoreSpec == Init /\ [][StoreNext]_vars

\* the two processes that write config/history.json
HistorySpec == Init /\ [][record_query \/ record_stats \/ clear_query_history]_vars

\* C35: saving the general settings form leaves the stored LLM settings as they
\* were: the file save_settings_route writes has the llm_provider and llm_model
\* that load_settings returned at the start of the request.
C35_LlmSettingsKept ==
    [][(portal.route = "settings" /\ portal.pc = "dump" /\ portal'.pc = "signal")
        => /\ settings_file'.json.llm_provider = portal.current.llm_provider
           /\ settings_file'.json.llm_model = portal.current.llm_model]_vars

\* C36: no history entry is lost to a concurrent writer: every entry recorded by
\* a completed record_stats is in the history file, and so is every entry of a
\* completed record_query while no clear has begun (the size caps are not reached).
C36_NoEntryLost ==
    /\ \A k \in 1 .. done.stats :
          \E i \in 1 .. Len(history_file.stats) : history_file.stats[i] = k
    /\ (done.clears = 0 /\ portal.pc # "clear_history")
          => \A k \in 1 .. done.queries :
                \E i \in 1 .. Len(history_file.queries) : history_file.queries[i] = k

\* the main loop keeps cycling and a request the portal has begun is handled to its end
StoreFairSpec ==
    /\ StoreSpec
    /\ WF_vars(check_reload)
    /\ WF_vars(portal.pc # "idle" /\ StoreNext /\ portal' # portal)

IdentityInit ==
    /\ Unconstructed(NoProfile)
    /\ NotListening
    /\ probe = NoProbe
    /\ arecord = [c \in ChannelCounts |-> "ok"]
    /\ audio_device \in { Ids[k] : k \in DOMAIN Ids }
    /\ audio_channels = 1
    /\ audio_sample_rate = _capture_sample_rate
    /\ proc_asound_cards \in
          { Unreadable,
            File(<< Meta.line_tegra, Meta.line_s330 >>),
            File(<< Meta.line_tegra, Meta.line_usb, Meta.line_cont >>),
            File(<< Meta.line_12speak >>) }
    /\ sysfs \in
          [manufacturer : { Unreadable, File(Meta.manufacturer_jabra),
                            File(Meta.manufacturer_jabraup), File(Meta.manufacturer_anker),
                            File(Meta.manufacturer_generic) },
           product : { Unreadable, File(Meta.product_speak), File(Meta.product_speaklow),
                       File(Meta.product_powerconf), File(Meta.product_usbaudio) },
           idVendor : { Unreadable, File(Meta.id_0b0e) },
           idProduct : { Unreadable, File(Meta.id_0b0e) }]
    /\ ident = EmptyIdentity(audio_device, NoCard)
    /\ settings_file = [json |-> DEFAULT_SETTINGS, ok |-> TRUE, rev |-> 0]
    /\ reload_signal = FALSE
    /\ history_file = [stats |-> << >>, queries |-> << >>]
    /\ portal = [pc |-> "idle", route |-> "none"]
    /\ rq = [stats |-> << >>, queries |-> << >>]
    /\ loaded = 0
    /\ done = [saves |-> 0, stats |-> 0, queries |-> 0, clears |-> 0]

IdentitySpec ==
    IdentityInit /\ [][GetDeviceIdentity \/ GetHardwareProfile \/ CaptureDeviceOverride]_vars

\* the same with stdout.read raising
ErrSpec == Init /\ [][Next \/ \E t \in Threads : ReaderReadError(t)]_vars

\* the mute detector alone, fed one buffer per evaluation
MuteInit ==
    /\ NotListening
    /\ NoIdentityRead
    /\ \E profile \in {JabraSpeak, AnkerPowerConf, DefaultProfile} : Constructed(profile, PreferredChannels(profile))

MuteNext == \E data \in AudioInputs : CheckAndUpdateMuteStatus(data)

MuteSpec == MuteInit /\ [][MuteNext]_vars

\* ------------------------------------------------------------------------
\* Properties
\* ------------------------------------------------------------------------
HasData(bs) == \E i \in 1 .. Len(bs) : bs[i].id # 0

HasPadding(bs) == \E i \in 1 .. Len(bs) : bs[i].id = 0

\* device bytes appear in the order of their arrival numbers
ArrivalOrder(bs) ==
    \A i, j \in 1 .. Len(bs) :
        (i < j /\ bs[i].id # 0 /\ bs[j].id # 0) => bs[i].id + bs[i].len <= bs[j].id

\* nothing but padding follows the first padding byte
PaddingAtTail(bs) ==
    \A i, j \in 1 .. Len(bs) : (i < j /\ bs[i].id = 0) => bs[j].id = 0

\* arrival number of the first device byte of a byte string with device bytes
FirstId(bs) == bs[CHOOSE i \in 1 .. Len(bs) : bs[i].id # 0 /\ \A j \in 1 .. (i - 1) : bs[j].id = 0].id

\* the bytes of bs are exactly the device bytes numbered lo .. hi
Covers(bs, lo, hi) ==
    /\ BLen(bs) = hi - lo + 1
    /\ ~HasPadding(bs)
    /\ bs # << >> => bs[1].id = lo
    /\ \A i \in 1 .. (Len(bs) - 1) : bs[i + 1].id = bs[i].id + bs[i].len

ReadPcs == {"r_loop", "r_poll", "r_sleep", "r_timeout"}

SameParameters(p, q) ==
    /\ procs[p].device = procs[q].device
    /\ procs[p].sample_rate = procs[q].sample_rate
    /\ procs[p].channels = procs[q].channels

\* C1: a read that times out on a buffer holding fewer bytes than requested returns
\* exactly the requested number of bytes: the buffered bytes, in arrival order,
\* followed by zero padding at the tail.
C1_TimeoutPadsToLength ==
    [][(mpc = "r_timeout" /\ mpc' = "idle" /\ BLen(Join(_buffer)) < bytes_needed)
        => /\ BLen(result') = bytes_needed
           /\ BTake(result', BLen(Join(_buffer))) = Norm(Join(_buffer))
           /\ ~HasData(BDrop(result', BLen(Join(_buffer))))
           /\ ArrivalOrder(result')
           /\ PaddingAtTail(result')]_vars

C1_Witness ==
    /\ retKind = "timeout"
    /\ HasData(result) /\ HasPadding(result)
    /\ BLen(result) = bytes_needed

\* C2: while the buffer stays under its cap no appended byte is lost: every byte
\* appended so far has been returned by a read or is still in the buffer.
C2_NoByteLost ==
    ~capDropped => Covers(Norm(Join(_buffer)), delivered + 1, appended)

\* C3: bytes leave the buffer in arrival order: a satisfied read returns the oldest
\* bytes_needed bytes, what it did not return of the last chunk stays at the front
\* ahead of every later chunk, and no byte is returned twice.
C3_StrictArrivalOrder ==
    /\ [][(mpc = "r_poll" /\ mpc' = "idle")
           => /\ result' = Norm(BTake(Join(_buffer), bytes_needed))
              /\ Norm(Join(_buffer')) = Norm(BDrop(Join(_buffer), bytes_needed))]_vars
    /\ [][(HasData(result') /\ result' # result) => FirstId(result') > delivered]_vars
    /\ [](/\ ArrivalOrder(Join(_buffer))
          /\ ArrivalOrder(result)
          /\ HasData(Join(_buffer)) => FirstId(Join(_buffer)) > delivered)

C3_Witness ==
    /\ retKind = "satisfied"
    /\ Len(_buffer) >= 2
    /\ _buffer[1][1].id = delivered + 1
    /\ BLen(_buffer[1]) < chunk_size
    /\ _buffer[2][1].id > _buffer[1][1].id

C5_StoppedForGood ==
    mpc = "stopped" => (~_running /\ (_process = None \/ ~PollIsNone(_process)))

\* C6: amplitude-zero profile, state unmuted: the first zero reading of a run
\* leaves the state unmuted, the second one makes it muted.
C6_TwoZeroReadingsMute ==
    [][(MuteNext /\ InfersMute(_hardware_profile) /\ ~_last_mute_state /\ evalAmp' = 0)
        => /\ zeroRun' = 1 => ~_last_mute_state'
           /\ zeroRun' = 2 => _last_mute_state'
           /\ zeroRun' \in {1, 2}]_vars

C6_Witness ==
    /\ InfersMute(_hardware_profile)
    /\ evalAmp = 0 /\ evalPrev = 0 /\ zeroRun = 2
    /\ ~evalBefore /\ _last_mute_state

\* C7: amplitude-zero profile: a non-zero reading in the unmuted state leaves it
\* unmuted and restarts the count, and the state becomes muted only at the second
\* of two zero readings in a row.
C7_NoFlapping ==
    [][(MuteNext /\ InfersMute(_hardware_profile) /\ ~_last_mute_state)
        => /\ evalAmp' # 0 => (~_last_mute_state' /\ _mute_counter' = 0)
           /\ _last_mute_state' => (evalAmp' = 0 /\ evalAmp = 0 /\ zeroRun' = 2)]_vars

C7_Witness ==
    /\ InfersMute(_hardware_profile)
    /\ evalPrev = 0 /\ evalAmp > 0
    /\ ~evalBefore /\ ~_last_mute_state /\ _mute_counter = 0

\* C8: amplitude-zero profile, state muted: one non-zero reading makes the state
\* unmuted in that evaluation, which returns unmuted.
C8_UnmuteAtOnce ==
    [][(MuteNext /\ InfersMute(_hardware_profile) /\ _last_mute_state /\ evalAmp' # 0)
        => (~_last_mute_state' /\ ~evalRet')]_vars

C8_Witness ==
    /\ InfersMute(_hardware_profile)
    /\ evalBefore /\ evalAmp > 0
    /\ ~_last_mute_state /\ ~evalRet

\* C9: with strategy 'none' (or no profile) the state is unmuted after every
\* evaluation whatever the readings, and the debounce counter stays 0.
C9_NoneNeverMutes ==
    /\ ~InfersMute(_hardware_profile)
          => /\ ~_last_mute_state /\ ~evalRet /\ _mute_counter = 0
             /\ ~mute_state_file.is_muted
    /\ \A data \in AudioInputs, last \in BOOLEAN, c \in 0 .. MuteThreshold :
          LET e == MuteEvalAmp(NoProfile, last, c, get_audio_amplitude(data))
          IN ~e.state /\ ~e.ret /\ e.counter = 0

C9_Witness ==
    /\ ~InfersMute(_hardware_profile)
    /\ evalAmp = 0 /\ zeroRun >= 2
    /\ mute_state_file.written /\ ~_last_mute_state

\* C10: every read returns, after at most MaxPolls sleep intervals, a byte string of
\* the requested length, also when no data ever arrives.
C10_ReadsReturn ==
    /\ [](elapsed <= MaxPolls)
    /\ (mpc \in ReadPcs)
          ~> (mpc = "idle" /\ retKind # "none" /\ BLen(result) = bytes_needed)

C10_Witness ==
    /\ retKind = "timeout"
    /\ ~HasData(result) /\ BLen(result) = bytes_needed
    /\ ~PollIsNone(_process)

\* C11: whenever the lock is free the buffer holds at most max_chunks (100) chunks,
\* and an append that exceeds the cap keeps the new chunk as the last one and drops
\* chunks from the front only.
C11_CapDropsOldest ==
    /\ [](_buffer_lock = Free => Len(_buffer) <= max_chunks)
    /\ [][\A t \in Threads :
             (rpc[t] = "append" /\ rpc'[t] = "loop" /\ Len(_buffer) + 1 > max_chunks)
                 => /\ Len(_buffer') = max_chunks
                    /\ _buffer'[max_chunks] = rdata[t]
                    /\ \A i \in 1 .. (max_chunks - 1) : _buffer'[i] = _buffer[i + 1]]_vars

C11_Witness ==
    /\ capDropped
    /\ _buffer_lock = Free
    /\ Len(_buffer) = max_chunks
    /\ _buffer[max_chunks][1].id = appended - chunk_size + 1
    /\ _buffer[1][1].id > delivered + 1

\* C12: speak() enters playback on a non-default endpoint only after stop() has
\* returned on the stream it held and with the reference discarded, so that no
\* stream is held during that playback; on 'default' the steps of speak() change
\* neither the reference nor any field or process of the stream.
C12_ReleaseIffNotDefault ==
    /\ [](mpc = "playback" /\ play_device # "default" => _audio_stream = None)
    /\ [][(mpc' = "playback" /\ mpc # "playback" /\ play_device' # "default"
             /\ _audio_stream # None)
            => (mpc = "stopped" /\ stoppedStream = StreamParams /\ _audio_stream' = None)]_vars
    /\ [][(play_device' = "default" /\ mpc' # mpc)
            => (mpc' \in {"playback", "finally", "idle"}
                /\ UNCHANGED << streamVars, procVars, _audio_stream, pureVars >>)]_vars

C12_Witness ==
    /\ mpc = "playback" /\ play_device # "default"
    /\ stoppedStream # NoStream
    /\ _audio_stream = None

\* C13: when a speak() on a non-default endpoint ends, whatever the playback did,
\* the assistant holds a stream again, constructed with the parameters of the
\* stream stopped before the playback.
C13_StreamRestored ==
    [][(mpc = "finally" /\ mpc' = "idle" /\ play_device # "default")
        => /\ _audio_stream' # None
           /\ stoppedStream # NoStream => StreamParams' = stoppedStream]_vars

\* C14: every evaluation writes the mute state file with the time of the
\* evaluation, whether or not the state changed, and the value written is the
\* value the evaluation returns.
C14_PublishedEveryEvaluation ==
    [][MuteNext => /\ mute_state_file'.written
                   /\ mute_state_file'.timestamp = now'
                   /\ mute_state_file'.is_muted = evalRet'
                   /\ evalRet' = _last_mute_state']_vars

C14_Witness ==
    /\ InfersMute(_hardware_profile)
    /\ evalBefore /\ _last_mute_state /\ evalRet
    /\ mute_state_file = [written |-> TRUE, is_muted |-> TRUE, timestamp |-> now]
    /\ now = 3

\* first element of seq whose test capture is accepted, d when there is none
RECURSIVE FirstAccepted(_, _)
FirstAccepted(seq, d) ==
    IF seq = << >> THEN d
    ELSE IF Accepted(arecord[Head(seq)]) THEN Head(seq) ELSE FirstAccepted(Tail(seq), d)

\* preferred, 1, 2 without duplicates
PreferredOneTwo(preferred) == << preferred >> \o SelectSeq(<< 1, 2 >>, LAMBDA c : c # preferred)

\* C15 as stated: the probe returns the first accepted count of preferred, 1, 2
\* (duplicates removed), or preferred when none is accepted.
C15_ProbeOrder ==
    probe.pc = "returned"
        => probe.ret = FirstAccepted(PreferredOneTwo(probe.preferred), probe.preferred)

\* C15 amended: the preferred count is tested (first) only when it is 1 or 2; the
\* probe returns the first accepted count of that list, or preferred when none is
\* accepted, whatever the test captures do; stereo-only with preferred = 1 gives 2.
C15_ProbeOrderOneOrTwo ==
    /\ probe.pc = "returned" =>
          /\ probe.ret = FirstAccepted(
                 IF probe.preferred \in {1, 2} THEN PreferredOneTwo(probe.preferred)
                 ELSE << 1, 2 >>, probe.preferred)
          /\ _audio_stream_channels = probe.ret
          /\ (probe.preferred = 1 /\ ~Accepted(arecord[1]) /\ Accepted(arecord[2]))
                => probe.ret = 2
    /\ probe.pc = "loop" => (ENABLED ProbeNext)

C15_Witness ==
    /\ probe.pc = "returned"
    /\ probe.preferred = 1
    /\ arecord[1] = "unsupported" /\ arecord[2] = "ok"
    /\ probe.tried = << 1, 2 >>
    /\ probe.ret = 2

\* the wake phrase, its normalised form or a table entry occurs in the transcript
PhraseHeard(word, heard) ==
    \/ Contains(word, lower(heard))
    \/ Contains(normalize(lower(word)), normalize(lower(heard)))
    \/ \E a \in MisrecognitionAliases(normalize(lower(word))) :
          Contains(normalize(a), normalize(lower(heard)))

\* C16 as stated: a transcript is detected exactly when the wake phrase occurs in
\* the lower-cased transcript, or its normalised form or a fixed alias occurs in
\* the normalised transcript.
C16_DetectedIffHeard ==
    wake.pc = "returned" => (wake.detected <=> PhraseHeard(wake_word, text))

\* C16 amended: ... for a wake phrase that is not empty, the normalised form
\* counting only when it is not empty; with an empty wake phrase nothing is
\* detected.  The three transcripts of the claim come out as stated.
C16_DetectedIffHeardNonEmpty ==
    wake.pc = "returned" =>
        /\ wake.detected <=>
              /\ wake_word # << >>
              /\ \/ Contains(wake_word, lower(text))
                 \/ /\ normalize(lower(wake_word)) # << >>
                    /\ Contains(normalize(lower(wake_word)), normalize(lower(text)))
                 \/ \E a \in MisrecognitionAliases(normalize(lower(wake_word))) :
                       Contains(normalize(a), normalize(lower(text)))
        /\ (wake_word = W.jetson /\ text = T.hey \o T.jetson \o T.what_time_is_it)
              => (wake.detected /\ wake.trailing = Command(strip(T.what_time_is_it)))
        /\ (wake_word = W.jetson /\ text = T.jetsonn \o T.turn_on_the_light)
              => wake.detected
        /\ (wake_word = W.jetson /\ text = T.good_morning) => ~wake.detected

C16_Witness ==
    /\ wake.pc = "returned" /\ wake.detected
    /\ wake_word = W.computer
    /\ text = T.good_morning \o T.bang \o T.commuter

\* what follows the first occurrence of sub in str
After(sub, str) == SubSeq(str, Find(sub, str) + Len(sub) + 1, Len(str))

\* C17: on every match the trailing command is what follows the wake phrase in the
\* transcript, trimmed, and it is None only when nothing follows: after the raw
\* phrase for a raw match, after the normalised phrase or alias for the others.
C17_TrailingAfterWake ==
    (wake.pc = "returned" /\ wake.detected) =>
        IF Contains(wake_word, lower(text))
        THEN LET rest == strip(After(wake_word, lower(text)))
             IN wake.trailing = IF rest = << >> THEN NoCommand ELSE Command(rest)
        ELSE wake.trailing.none =>
                \E a \in WakeAliases(normalize(lower(wake_word))) :
                    /\ Contains(a, normalize(lower(text)))
                    /\ After(a, normalize(lower(text))) = << >>

\* C18: every cycle of listen_for_wake_word returns; a cycle in which the capture
\* read, the spotter, the transcription or the split failed returns (False, None),
\* and so does a fallback cycle whose transcript is empty.
C18_ListenNeverRaises ==
    /\ wake.pc \in {"none", "returned"}
    /\ failed # "none" => (wake.caught \/ failed = "read")
    /\ failed # "none" => (~wake.detected /\ wake.trailing = NoCommand)
    /\ (_oww_model = NoModel /\ wake.pc = "returned" /\ text = << >>)
          => (~wake.detected /\ wake.trailing = NoCommand)

C18_Witness ==
    /\ wake.pc = "returned" /\ wake.caught
    /\ failed = "transcribe"
    /\ _oww_model = NoModel
    /\ text = T.hey \o T.jetson \o T.what_time_is_it
    /\ ~wake.detected /\ wake.trailing = NoCommand

\* sub occurs, in any letter case, in the card name, the manufacturer or the product
Mentions(id, sub) ==
    \/ Contains(sub, lower(id.alsa_card_name))
    \/ Contains(sub, lower(id.usb_manufacturer))
    \/ Contains(sub, lower(id.usb_product))

\* C19: the profile is determined by the three identity strings: 'jabra' and
\* 'speak' give the Jabra profile, 'anker' and 'powerconf' or 's330' the Anker
\* profile, in any letter case, and everything else the default profile, which has
\* mute detection 'none' and no channel preference.
C19_ProfileFromIdentity ==
    mpc = "profiled" =>
        LET jabra == Mentions(ident, S.jabra) /\ Mentions(ident, S.speak)
            anker == /\ Mentions(ident, S.anker)
                     /\ (Mentions(ident, S.powerconf) \/ Mentions(ident, S.s330))
        IN /\ jabra => _hardware_profile = JabraSpeak
           /\ anker => _hardware_profile = AnkerPowerConf
           /\ (~jabra /\ ~anker) =>
                 /\ _hardware_profile = DefaultProfile
                 /\ _hardware_profile.mute_detection = "none"
                 /\ _hardware_profile.prefer_capture_channels = None

C19_Witness ==
    /\ mpc = "profiled"
    /\ ident.usb_manufacturer = strip(Meta.manufacturer_jabraup)
    /\ ident.usb_product = strip(Meta.product_speak)
    /\ ident.alsa_card_name = strip(<< "S", "3", "3", "0" >>)
    /\ _hardware_profile = JabraSpeak

\* C20: get_device_identity returns for every identifier; the fields are empty
\* when the identifier is no hw:/plughw: card address, and a field whose file
\* cannot be read is empty.
C20_IdentityNeverRaises ==
    /\ mpc = "init" => ident = EmptyIdentity(audio_device, NoCard)
    /\ mpc \in {"identified", "profiled"} =>
          /\ ident.device_id = audio_device
          /\ ident.card_index = _parse_card_index(audio_device)
          /\ _parse_card_index(audio_device) = NoCard =>
                ident = EmptyIdentity(audio_device, NoCard)
          /\ ~proc_asound_cards.ok => ident.alsa_card_name = << >>
          /\ ~sysfs.manufacturer.ok => ident.usb_manufacturer = << >>
          /\ ~sysfs.product.ok => ident.usb_product = << >>
          /\ ~sysfs.idVendor.ok => ident.usb_vendor_id = << >>
          /\ ~sysfs.idProduct.ok => ident.usb_product_id = << >>

C20_Witness ==
    /\ mpc = "identified"
    /\ ident.card_index = 2
    /\ ~proc_asound_cards.ok /\ ~sysfs.product.ok /\ sysfs.manufacturer.ok
    /\ ident.alsa_card_name = << >> /\ ident.usb_product = << >>
    /\ ident.usb_manufacturer = strip(Meta.manufacturer_anker)

\* C26: at most one reader thread of the stream is in its loop (testing the
\* condition, reading the pipe, taking the lock or appending), whatever the
\* restarts and the calls of stop().
C26_OneReader ==
    Cardinality({ t \in Threads : rpc[t] \in {"loop", "read", "lock", "append"} }) <= 1

C26_Witness ==
    /\ spawned = 2
    /\ rpc[1] = "done"
    /\ rpc[2] = "append"
    /\ ~_running

\* C27: the lock is held only inside the with-blocks: by a reader thread only
\* between taking it and the end of its append, never while it reads the pipe; by
\* the caller only while it inspects or empties the buffer, never while it sleeps.
C27_LockOnlyAroundBuffer ==
    /\ \A t \in Threads :
          /\ _buffer_lock = t => rpc[t] = "append"
          /\ rpc[t] = "read" => _buffer_lock # t
    /\ _buffer_lock = MainThread => mpc \in {"r_poll", "r_timeout"}
    /\ mpc = "r_sleep" => _buffer_lock # MainThread

C27_Witness ==
    /\ mpc = "r_sleep"
    /\ \E t \in Threads : _buffer_lock = t /\ rpc[t] = "append"

\* magnitude of the signed 16-bit little-endian sample i of a byte string
SampleMagnitude(bs, i) ==
    LET u == ByteAt(bs, 2 * i) + 256 * ByteAt(bs, 2 * i + 1)
    IN IF u >= 32768 THEN 65536 - u ELSE u

\* C29: the amplitude of a buffer of fewer than 100 bytes is 0; that of a longer
\* buffer is the largest magnitude among the samples 0, 10, 20, ... below
\* min(number of samples, 1000): at most 100 samples, evenly spaced.
C29_AmplitudeOfSubsample ==
    evalAmp # -1 =>
        IF BLen(evalData) < 100 THEN evalAmp = 0
        ELSE LET n == BLen(evalData) \div 2
                 sub == { i \in 0 .. (Min(n, 1000) - 1) : i % 10 = 0 }
             IN /\ Cardinality(sub) <= 100
                /\ \A i \in sub : SampleMagnitude(evalData, i) <= evalAmp
                /\ evalAmp = 0 \/ \E i \in sub : SampleMagnitude(evalData, i) = evalAmp

C29_Witness ==
    /\ evalData = << Run(1, 20, 7, 0), Run(21, 2, -5, 0), Run(23, 99, 2, 0) >>
    /\ evalAmp = 7
    /\ evalPrev = 0
    /\ BLen(evalData) = 121

\* C30: the amplitude is an integer from 0 to 32767.
C30_AmplitudeInRange ==
    evalAmp # -1 => evalAmp \in 0 .. 32767

\* the cycle called c
Called(c) == \E i \in 1 .. Len(cycle.calls) : cycle.calls[i] = c

\* the cycle called a, and b only after it if at all
CalledBefore(a, b) ==
    \E i \in 1 .. Len(cycle.calls) :
        /\ cycle.calls[i] = a
        /\ \A j \in 1 .. i : cycle.calls[j] # b

\* C23: in a cycle of the fast path the frame goes to the mute detector before
\* the spotter runs; when the detector reports muted the cycle ends there, not
\* detected, and neither the spotter nor the transcription is called.
C23_MuteCheckBeforeSpotter ==
    (_oww_model # NoModel /\ wake.pc = "returned") =>
        /\ Called("read_bytes") => Called("check_and_update_mute_status")
        /\ Called("predict") => CalledBefore("check_and_update_mute_status", "predict")
        /\ (Called("check_and_update_mute_status") /\ evalRet) =>
              /\ cycle.calls = << "read_bytes", "check_and_update_mute_status" >>
              /\ ~wake.detected /\ wake.trailing = NoCommand

C23_Witness ==
    /\ _oww_model # NoModel /\ wake.pc = "returned"
    /\ evalRet /\ evalAmp = 0 /\ evalPrev = 0
    /\ cycle.score > OwwThreshold
    /\ text # << >>
    /\ cycle.calls = << "read_bytes", "check_and_update_mute_status" >>
    /\ ~wake.detected

\* the spotter returned a score in this cycle of the fast path
Scored ==
    /\ _oww_model # NoModel /\ wake.pc = "returned"
    /\ Called("predict") /\ failed # "spotter"

\* C24 as stated: a score above 0.5 resets the spotter before the window is
\* read and transcribed, and the cycle returns detected with the transcript as
\* trailing command, or with none when the transcript is empty.
C24_SpottedReturnsTranscript ==
    (Scored /\ cycle.score > OwwThreshold) =>
        /\ CalledBefore("reset", "_record_audio")
        /\ CalledBefore("_record_audio", "_transcribe")
        /\ Called("_transcribe")
        /\ wake.detected
        /\ wake.trailing = IF text = << >> THEN NoCommand ELSE Command(text)

\* C24: a score above 0.5, and no other, resets the spotter before the window is
\* read and transcribed; when the transcription returns, the cycle returns
\* detected with the transcript in lower case as trailing command, or with none
\* when the transcript is empty; when it raises, the cycle returns not detected.
C24_SpottedReturnsLowerCaseTranscript ==
    /\ (Scored /\ cycle.score > OwwThreshold) =>
          /\ CalledBefore("reset", "_record_audio")
          /\ CalledBefore("_record_audio", "_transcribe")
          /\ Called("_transcribe")
          /\ IF failed = "transcribe"
             THEN ~wake.detected /\ wake.trailing = NoCommand
             ELSE /\ wake.detected
                  /\ wake.trailing = IF text = << >> THEN NoCommand
                                     ELSE Command(lower(text))
    /\ (Scored /\ cycle.score <= OwwThreshold) =>
          /\ ~Called("reset") /\ ~Called("_transcribe")
          /\ ~wake.detected

C24_Witness ==
    /\ Scored /\ cycle.score > OwwThreshold
    /\ failed = "none"
    /\ text = T.Jetson \o T.what_time_is_it
    /\ wake.detected
    /\ wake.trailing = Command(T.jetson \o T.what_time_is_it)
    /\ cycle.calls = << "read_bytes", "check_and_update_mute_status", "predict", "reset",
                        "_record_audio", "_transcribe" >>

\* C25: a cycle of the fallback path records, then updates the mute state from
\* the window, then applies the amplitude gate; the transcription is called if
\* and only if the detector reports unmuted and the amplitude is at least 30, and
\* a cycle that does not transcribe returns not detected.
C25_MuteThenGateThenTranscribe ==
    (_oww_model = NoModel /\ wake.pc = "returned") =>
        /\ SubSeq(cycle.calls, 1, 2) = << "_record_audio", "check_and_update_mute_status" >>
        /\ Called("_transcribe") <=> (~evalRet /\ evalAmp >= 30)
        /\ Called("_transcribe") =>
              cycle.calls = << "_record_audio", "check_and_update_mute_status", "_transcribe" >>
        /\ ~Called("_transcribe") => (~wake.detected /\ wake.trailing = NoCommand)

C25_Witness ==
    /\ _oww_model = NoModel /\ wake.pc = "returned"
    /\ ~evalRet /\ evalAmp = 29
    /\ text = T.hey \o T.jetson \o T.what_time_is_it
    /\ cycle.calls = << "_record_audio", "check_and_update_mute_status" >>
    /\ ~wake.detected

\* C21: a reload that changes the capture device, the channel count or the
\* sample rate destroys the capture stream held at that moment: the step that
\* takes the new settings at least sets the stop flag of the stream, which ends
\* its reader thread and starts the termination of its process.
C21_ReloadDestroysStream ==
    [][(/\ _audio_stream # None
        /\ \/ audio_device' # audio_device
           \/ audio_channels' # audio_channels
           \/ audio_sample_rate' # audio_sample_rate)
         => ~_running']_vars

\* C22: startup never aborts: whatever the configured device identifier and
\* whatever it resolves to, __init__ goes past the choice of the capture device
\* without an uncaught exception.
C22_StartupNeverAborts == mpc # "AttributeError"

\* C28: the spotter model never changes after startup, and every cycle runs the
\* path that goes with it: with a model the cycle reads a frame and never starts
\* with a recording, without one it records and never reads a frame or runs the
\* spotter.
C28_ModeFixedAtStartup ==
    /\ [][_oww_model' = _oww_model]_vars
    /\ [](wake.pc = "returned" =>
            IF _oww_model # NoModel
            THEN cycle.calls = << >> \/ cycle.calls[1] = "read_bytes"
            ELSE /\ cycle.calls # << >> /\ cycle.calls[1] = "_record_audio"
                 /\ ~Called("read_bytes") /\ ~Called("predict"))

C28_Witness ==
    /\ wake_word = W.computer
    /\ _oww_model # NoModel
    /\ wake.pc = "returned"
    /\ cycle.calls # << >> /\ cycle.calls[1] = "read_bytes" /\ Called("predict")
    /\ audio_channels = 2
    /\ spawned = 2 /\ _running

\* C39: after every evaluation the debounce counter is 0 or 1, and it is 0
\* whenever the state is muted or the profile's strategy is 'none'.
C39_CounterZeroOrOne ==
    /\ _mute_counter \in {0, 1}
    /\ (_last_mute_state \/ ~InfersMute(_hardware_profile)) => _mute_counter = 0

C39_Witness ==
    /\ InfersMute(_hardware_profile)
    /\ mute_state_file.written
    /\ evalAmp = 0 /\ zeroRun = 1
    /\ ~_last_mute_state /\ _mute_counter = 1

\* C33: fallback path, detector unmuted after the check: a window that holds,
\* at any position, a sample of magnitude at least 30 is handed to transcription.
C33_LoudWindowTranscribed ==
    (/\ _oww_model = NoModel
     /\ _audio_stream # None
     /\ cycle.calls # << >>
     /\ ~evalRet
     /\ \E i \in 0 .. (BLen(evalData) \div 2 - 1) :
           SampleMagnitude(evalData, i) >= LowSignal)
        => Called("_transcribe")

\* C31: amplitude-zero profile: the state becomes muted only when the two
\* readings that made it so both hold audio delivered by the capture device;
\* readings that are nothing but the zero padding of timed-out reads never do it.
C31_PaddingNeverMutes ==
    [][(/\ InfersMute(_hardware_profile) /\ ~_last_mute_state /\ _last_mute_state'
        /\ BLen(evalData) = 2560 /\ BLen(evalData') = 2560)
        => (HasData(evalData) /\ HasData(evalData'))]_vars

\* C32: at every moment at most one capture process spawned by the assistant
\* is alive (running, not yet signalled to terminate).
C32_OneCaptureProcess ==
    Cardinality({ p \in 1 .. MaxSpawns : procs[p].state = "alive" }) <= 1

\* C37: the steps of a self-restart (the flag, the new process) leave the ring
\* buffer as it was; every byte in it at the spawn is older than any byte the new
\* process will produce, and the buffer stays in arrival order, so that reads,
\* which take from the front, return the old chunks first.
C37_RestartKeepsBuffer ==
    /\ [][(\E t \in Threads : rpc[t] \in {"sleep", "start_popen"} /\ rpc'[t] # rpc[t])
           => /\ _buffer' = _buffer
              /\ \A i \in 1 .. Len(_buffer') : \A k \in 1 .. Len(_buffer'[i]) :
                    _buffer'[i][k].id + _buffer'[i][k].len <= nextId']_vars
    /\ [](ArrivalOrder(Join(_buffer)))

C37_Witness ==
    /\ spawned = 2 /\ procs[1].state = "dead" /\ rpc[2] = "loop"
    /\ Len(_buffer) >= 1
    /\ _buffer[1][1].id = 1
    /\ mpc = "idle" /\ retKind = "none"

\* C38: a read of more bytes than max_chunks chunks of chunk_size bytes is never
\* satisfied from the buffer: it ends through the timeout path and returns what
\* the buffer retained, in arrival order, followed by zero padding.  Whenever
\* the lock is free the buffer holds at most max_chunks chunks of at most
\* chunk_size bytes each.
C38_LongReadTimesOut ==
    /\ [](_buffer_lock = Free =>
            /\ Len(_buffer) <= max_chunks
            /\ \A i \in 1 .. Len(_buffer) : BLen(_buffer[i]) <= chunk_size)
    /\ [][(bytes_needed > max_chunks * chunk_size /\ mpc # "idle" /\ mpc' = "idle")
           => /\ retKind' = "timeout"
              /\ BLen(result') = bytes_needed
              /\ BLen(SelectSeq(result', LAMBDA r : r.id # 0)) = BLen(Join(_buffer))
              /\ _buffer # << >> => FirstId(result') = _buffer[1][1].id
              /\ ArrivalOrder(result')
              /\ HasPadding(result') /\ PaddingAtTail(result')]_vars

C38_Witness ==
    /\ bytes_needed > max_chunks * chunk_size
    /\ mpc = "idle" /\ retKind = "timeout"
    /\ capDropped
    /\ BLen(BTake(result, max_chunks * chunk_size)) = max_chunks * chunk_size
    /\ HasData(result) /\ FirstId(result) = chunk_size + 1

TypeOK ==
    /\ _buffer_lock \in {Free, MainThread} \cup Threads
    /\ _audio_stream \in {None} \cup (1 .. MaxSpawns)
    /\ _process \in {None} \cup (1 .. MaxSpawns)
    /\ _mute_counter \in 0 .. MuteThreshold
====
